---------------------------- MODULE Spec2Model ----------------------------
(***************************************************************************)
(* Style resolution of libRocket/RmlUi: ElementDefinition (the shared,     *)
(* immutable rule table) and ElementStyle (the per-element overlay: local  *)
(* properties, pseudo-classes, classes, dirty list, computed values).      *)
(*                                                                         *)
(* Lengths are kept in tenths of a pixel and multipliers in hundredths, so *)
(* that the float arithmetic of the source is exact on the values used.    *)
(***************************************************************************)
EXTENDS Integers, Sequences, FiniteSets, TLC

NULL == "NULL"

(***************************************************************************)
(* Bounds of the exploration.                                              *)
(***************************************************************************)
\* Number of API calls in one explored run.
MaxSteps == 3
\* Longest pseudo-class list an element is given.
MaxPseudoClasses == 3

(***************************************************************************)
(* The document tree: root -> mid -> leaf.                                 *)
(***************************************************************************)
Elements == {"root", "mid", "leaf"}

\* Element::GetParentNode
GetParentNode(e) ==
    CASE e = "root" -> NULL
      [] e = "mid"  -> "root"
      [] e = "leaf" -> "mid"

\* Element::GetNumChildren(true) / Element::GetChild(i): the direct children
Children(e) == {c \in Elements : GetParentNode(c) = e}

RECURSIVE Ancestors(_)
\* the ancestors of e, nearest first
Ancestors(e) ==
    IF GetParentNode(e) = NULL THEN <<>>
    ELSE <<GetParentNode(e)>> \o Ancestors(GetParentNode(e))

(***************************************************************************)
(* Property names and the registry (StyleSheetSpecification).              *)
(***************************************************************************)
COLOR          == "color"
FONT_SIZE      == "font-size"
LINE_HEIGHT    == "line-height"
VERTICAL_ALIGN == "vertical-align"
WIDTH          == "width"
TRANSITION     == "transition"

\* StyleSheetSpecification::GetRegisteredProperties
RegisteredProperties ==
    {COLOR, FONT_SIZE, LINE_HEIGHT, VERTICAL_ALIGN, WIDTH, TRANSITION}

\* StyleSheetSpecification::GetRegisteredInheritedProperties
RegisteredInheritedProperties == {COLOR, FONT_SIZE, LINE_HEIGHT}

\* the order in which a property map is iterated (maps are ordered by name)
NameOrder == <<COLOR, FONT_SIZE, LINE_HEIGHT, TRANSITION, VERTICAL_ALIGN, WIDTH>>

\* a Property: a unit and a value
Prop(u, v) == [unit |-> u, value |-> v]

\* the absent Property (a NULL Property pointer)
NoProperty == Prop("null", 0)

\* PropertyDefinition::GetDefaultValue
DefaultValue(name) ==
    CASE name = COLOR          -> Prop("colour", "white")
      [] name = FONT_SIZE      -> Prop("px", 120)
      [] name = LINE_HEIGHT    -> Prop("number", 120)
      [] name = VERTICAL_ALIGN -> Prop("keyword", "baseline")
      [] name = WIDTH          -> Prop("keyword", "auto")
      [] name = TRANSITION     -> Prop("transition", [none |-> TRUE, all |-> FALSE, transitions |-> <<>>])
      [] OTHER                 -> NoProperty

\* StyleSheetSpecification::GetProperty(name): the PropertyDefinition; `registered`
\* is false where the source gets NULL
SpecificationGetProperty(name) ==
    [registered |-> name \in RegisteredProperties,
     inherited  |-> name \in RegisteredInheritedProperties,
     default    |-> DefaultValue(name)]

(***************************************************************************)
(* Sequence helpers.                                                       *)
(***************************************************************************)
Range(s) == {s[i] : i \in DOMAIN s}

\* std::find(...) != end
Contains(s, x) == \E i \in DOMAIN s : s[i] = x

RECURSIVE EraseFirst(_, _)
\* vector::erase(std::find(s, x)): s without its first x
EraseFirst(s, x) ==
    IF s = <<>> THEN <<>>
    ELSE IF Head(s) = x THEN Tail(s)
    ELSE <<Head(s)>> \o EraseFirst(Tail(s), x)

\* the names of dom, in map iteration order
Ordered(dom) == SelectSeq(NameOrder, LAMBDA n : n \in dom)


(***************************************************************************)
(* ElementDefinition.                                                      *)
(*   properties              name -> Property (no pseudo-classes)          *)
(*   specificity             name -> specificity of that Property          *)
(*   pseudo_class_properties name -> list of <pseudo-class list, Property> *)
(*                           in specificity order                          *)
(*   pseudo_class_volatility pseudo-class -> volatility                    *)
(***************************************************************************)
STABLE             == "STABLE"
FONT_VOLATILE      == "FONT_VOLATILE"
STRUCTURE_VOLATILE == "STRUCTURE_VOLATILE"

PseudoClasses == {"hover", "focus"}

\* a style sheet node: a rule with its specificity, pseudo-class requirement and properties
Rule(s, pcs, props) == [specificity |-> s, pseudo_classes |-> pcs, properties |-> props]

\* ElementDefinition::IsPseudoClassRuleApplicable: every pseudo-class the rule
\* requires is in the element's list
IsPseudoClassRuleApplicable(rule_pseudo_classes, element_pseudo_classes) ==
    \A i \in DOMAIN rule_pseudo_classes :
        Contains(element_pseudo_classes, rule_pseudo_classes[i])

RECURSIVE InsertBySpecificity(_, _)
\* the list with `entry` put before the first less specific entry; an entry for
\* the same pseudo-class list is replaced
InsertBySpecificity(list, entry) ==
    IF list = <<>> THEN <<entry>>
    ELSE IF Head(list).first = entry.first THEN InsertBySpecificity(Tail(list), entry)
    ELSE IF Head(list).specificity < entry.specificity THEN <<entry>> \o list
    ELSE <<Head(list)>> \o InsertBySpecificity(Tail(list), entry)

\* the list stored under `name`, or the empty list
PseudoClassPropertyList(table, name) == IF name \in DOMAIN table THEN table[name] ELSE <<>>

\* one property of one style sheet node, merged into the definition
MergeProperty(def, node, name) ==
    IF node.pseudo_classes # <<>>
    THEN [def EXCEPT !.pseudo_class_properties =
             (name :> InsertBySpecificity(PseudoClassPropertyList(@, name),
                          [first |-> node.pseudo_classes, second |-> node.properties[name],
                           specificity |-> node.specificity])) @@ @]
    ELSE IF name \in DOMAIN def.properties /\ def.specificity[name] > node.specificity
    THEN def
    ELSE [def EXCEPT !.properties = (name :> node.properties[name]) @@ @,
                     !.specificity = (name :> node.specificity) @@ @]

RECURSIVE MergeProperties(_, _, _)
\* every property of one style sheet node, merged into the definition
MergeProperties(def, node, names) ==
    IF names = <<>> THEN def
    ELSE MergeProperties(MergeProperty(def, node, Head(names)), node, Tail(names))

RECURSIVE MergeNodes(_, _)
\* every style sheet node, merged into the definition
MergeNodes(def, style_sheet_nodes) ==
    IF style_sheet_nodes = <<>> THEN def
    ELSE MergeNodes(MergeProperties(def, Head(style_sheet_nodes),
                                    Ordered(DOMAIN Head(style_sheet_nodes).properties)),
                    Tail(style_sheet_nodes))

\* ElementDefinition::Initialise: the base properties are merged by specificity;
\* the pseudo-class properties are listed per name, most specific first
Initialise(style_sheet_nodes, volatile_pseudo_classes, font_pseudo_classes) ==
    MergeNodes([properties |-> <<>>, specificity |-> <<>>, pseudo_class_properties |-> <<>>,
                pseudo_class_volatility |->
                    [pc \in PseudoClasses |->
                        IF pc \in volatile_pseudo_classes THEN STRUCTURE_VOLATILE
                        ELSE IF pc \in font_pseudo_classes THEN FONT_VOLATILE
                        ELSE STABLE]],
               style_sheet_nodes)

RECURSIVE FirstApplicable(_, _, _)
\* the Property of the first entry of `list` applicable under pseudo_classes, else `otherwise`
FirstApplicable(list, pseudo_classes, otherwise) ==
    IF list = <<>> THEN otherwise
    ELSE IF IsPseudoClassRuleApplicable(Head(list).first, pseudo_classes) THEN Head(list).second
    ELSE FirstApplicable(Tail(list), pseudo_classes, otherwise)

\* PropertyDictionary::GetProperty on the base properties
BaseProperty(def, name) == IF name \in DOMAIN def.properties THEN def.properties[name] ELSE NoProperty

\* ElementDefinition::GetProperty(name, pseudo_classes): the first applicable
\* pseudo-class entry in stored order, else the base property, else none
DefinitionGetProperty(def, name, pseudo_classes) ==
    FirstApplicable(PseudoClassPropertyList(def.pseudo_class_properties, name), pseudo_classes,
                    BaseProperty(def, name))

\* ElementDefinition::GetDefinedProperties(names, pseudo_classes): every name with
\* a base entry or an applicable pseudo-class entry
GetDefinedProperties(def, pseudo_classes) ==
    DOMAIN def.properties \cup
    {n \in DOMAIN def.pseudo_class_properties :
        \E i \in DOMAIN def.pseudo_class_properties[n] :
            IsPseudoClassRuleApplicable(def.pseudo_class_properties[n][i].first, pseudo_classes)}

\* whether a rule involves pseudo_class and has its other requirements met
InvolvesPseudoClass(rule, pseudo_classes, pseudo_class) ==
    /\ Contains(rule, pseudo_class)
    /\ \A j \in DOMAIN rule : rule[j] # pseudo_class => Contains(pseudo_classes, rule[j])

\* ElementDefinition::GetDefinedProperties(names, pseudo_classes, pseudo_class): every
\* name with an entry that involves pseudo_class and whose other requirements are
\* met by pseudo_classes (the list after the change)
GetDefinedPropertiesFor(def, pseudo_classes, pseudo_class) ==
    {n \in DOMAIN def.pseudo_class_properties :
        \E i \in DOMAIN def.pseudo_class_properties[n] :
            InvolvesPseudoClass(def.pseudo_class_properties[n][i].first, pseudo_classes, pseudo_class)}

\* ElementDefinition::GetPseudoClassVolatility
GetPseudoClassVolatility(def, pseudo_class) ==
    IF pseudo_class \in DOMAIN def.pseudo_class_volatility
    THEN def.pseudo_class_volatility[pseudo_class]
    ELSE STABLE

(***************************************************************************)
(* ElementDefinition::Iterator: a cursor over the base properties and then *)
(* over the applicable pseudo-class entries.  A position in a map is the   *)
(* index of its key in iteration order; the end is one past the last key.  *)
(***************************************************************************)
PropertiesKeys(def) == Ordered(DOMAIN def.properties)
PseudoKeys(def) == Ordered(DOMAIN def.pseudo_class_properties)
PropertiesEnd(def) == Len(PropertiesKeys(def)) + 1
PseudoEnd(def) == Len(PseudoKeys(def)) + 1

RECURSIVE ProceedLoopEveryEntry(_, _, _, _)
\* the two nested for-loops when every stored entry is taken to be applicable
ProceedLoopEveryEntry(def, pseudo_classes, ipc, i) ==
    IF ipc = PseudoEnd(def) THEN [it_pseudo_class_properties |-> ipc, i_pseudo_class |-> i]
    ELSE IF i < Len(def.pseudo_class_properties[PseudoKeys(def)[ipc]])
         THEN [it_pseudo_class_properties |-> ipc, i_pseudo_class |-> i]
         ELSE ProceedLoopEveryEntry(def, pseudo_classes, ipc + 1, 0)

RECURSIVE ProceedLoop(_, _, _, _)
\* the two nested for-loops of proceed_to_next_valid, from position (ipc, i)
ProceedLoop(def, pseudo_classes, ipc, i) ==
    IF ipc = PseudoEnd(def) THEN [it_pseudo_class_properties |-> ipc, i_pseudo_class |-> i]
    ELSE LET pseudo_list == def.pseudo_class_properties[PseudoKeys(def)[ipc]]
         IN  IF i < Len(pseudo_list)
             THEN IF IsPseudoClassRuleApplicable(pseudo_list[i + 1].first, pseudo_classes)
                  THEN [it_pseudo_class_properties |-> ipc, i_pseudo_class |-> i]
                  ELSE ProceedLoop(def, pseudo_classes, ipc, i + 1)
             ELSE ProceedLoop(def, pseudo_classes, ipc + 1, 0)

\* Iterator::proceed_to_next_valid
proceed_to_next_valid(def, it) ==
    IF it.it_properties = PropertiesEnd(def)
    THEN LET r == ProceedLoop(def, it.pseudo_classes, it.it_pseudo_class_properties, it.i_pseudo_class)
         IN  [it EXCEPT !.it_pseudo_class_properties = r.it_pseudo_class_properties,
                        !.i_pseudo_class = r.i_pseudo_class]
    ELSE it

\* Iterator::Iterator(pseudo_classes, it_properties, it_pseudo_class_properties, ...)
IteratorNew(def, pseudo_classes, it_properties, it_pseudo_class_properties) ==
    proceed_to_next_valid(def,
        [pseudo_classes |-> pseudo_classes, it_properties |-> it_properties,
         it_pseudo_class_properties |-> it_pseudo_class_properties, i_pseudo_class |-> 0])

\* ElementDefinition::begin(pseudo_classes)
DefinitionBegin(def, pseudo_classes) == IteratorNew(def, pseudo_classes, 1, 1)

\* ElementDefinition::end(pseudo_classes)
DefinitionEnd(def, pseudo_classes) ==
    IteratorNew(def, pseudo_classes, PropertiesEnd(def), PseudoEnd(def))

\* Iterator::operator++
IteratorNext(def, it) ==
    IF it.it_properties # PropertiesEnd(def)
    THEN proceed_to_next_valid(def, [it EXCEPT !.it_properties = @ + 1])
    ELSE proceed_to_next_valid(def, [it EXCEPT !.i_pseudo_class = @ + 1])

\* Iterator::operator* with Iterator::pseudo_class_list
IteratorDeref(def, it) ==
    IF it.it_properties # PropertiesEnd(def)
    THEN [name |-> PropertiesKeys(def)[it.it_properties],
          property |-> def.properties[PropertiesKeys(def)[it.it_properties]],
          pseudo_class_list |-> NULL]
    ELSE LET n == PseudoKeys(def)[it.it_pseudo_class_properties]
             e == def.pseudo_class_properties[n][it.i_pseudo_class + 1]
         IN  [name |-> n, property |-> e.second, pseudo_class_list |-> e.first]

RECURSIVE PseudoEntries(_, _)
\* the number of pseudo-class entries stored under `keys`
PseudoEntries(def, keys) ==
    IF keys = <<>> THEN 0
    ELSE Len(def.pseudo_class_properties[Head(keys)]) + PseudoEntries(def, Tail(keys))

\* the number of entries a definition holds
DefinitionSize(def) == Len(PropertiesKeys(def)) + PseudoEntries(def, PseudoKeys(def))

RECURSIVE IterateFrom(_, _, _, _)
\* for (it = begin; it != end; ++it): the entries visited, in order; the walk is
\* cut after `fuel` increments, and then ends with the entry "unterminated"
IterateFrom(def, it, end, fuel) ==
    IF it = end THEN <<>>
    ELSE IF fuel = 0 THEN <<[name |-> "unterminated", property |-> NULL, pseudo_class_list |-> NULL]>>
    ELSE <<IteratorDeref(def, it)>> \o IterateFrom(def, IteratorNext(def, it), end, fuel - 1)

\* the sequence a range-for over the definition visits
DefinitionIterate(def, pseudo_classes) ==
    IterateFrom(def, DefinitionBegin(def, pseudo_classes), DefinitionEnd(def, pseudo_classes),
                DefinitionSize(def))

(***************************************************************************)
(* The style sheet of the explored document: three definitions.  DefA and  *)
(* DefB are given the same two pseudo-class rules for "color" in opposite  *)
(* input order.                                                            *)
(***************************************************************************)
Colour(c) == Prop("colour", c)
Px(v) == Prop("px", v)
Em(v) == Prop("em", v)
Number(v) == Prop("number", v)
TransitionList(names) == Prop("transition", [none |-> FALSE, all |-> FALSE, transitions |-> names])

RulesA ==
    << Rule(1, <<>>, (COLOR :> Colour("red")) @@ (WIDTH :> Em(200))),
       Rule(2, <<"hover">>, (COLOR :> Colour("blue"))),
       Rule(3, <<"focus">>, (COLOR :> Colour("green"))) >>

RulesB ==
    << Rule(3, <<"focus">>, (COLOR :> Colour("green"))),
       Rule(2, <<"hover">>, (COLOR :> Colour("blue"))),
       Rule(1, <<>>, (COLOR :> Colour("blue")) @@ (FONT_SIZE :> Px(160)) @@ (LINE_HEIGHT :> Number(125))) >>

RulesC ==
    << Rule(1, <<>>, (COLOR :> Colour("green")) @@ (TRANSITION :> TransitionList(<<COLOR>>))),
       Rule(2, <<"hover">>, (COLOR :> Colour("red")) @@ (WIDTH :> Px(100))) >>

DefinitionIds == {"DefA", "DefB", "DefC"}

\* the ElementDefinition objects the style sheet hands out
Definitions ==
    [d \in DefinitionIds |->
        CASE d = "DefA" -> Initialise(RulesA, {"focus"}, {})
          [] d = "DefB" -> Initialise(RulesB, {}, {"hover"})
          [] d = "DefC" -> Initialise(RulesC, {}, {})]

ClassNames == {"a", "b"}

\* StyleSheet::GetElementDefinition(element): the definition matching the element's
\* classes, or NULL when no rule matches
GetElementDefinition(element_classes) ==
    CASE Range(element_classes) = {}         -> "DefA"
      [] Range(element_classes) = {"a"}      -> "DefB"
      [] Range(element_classes) = {"a", "b"} -> "DefC"
      [] OTHER                               -> NULL

(***************************************************************************)
(* DirtyPropertyList: a set of names, or "all".                            *)
(***************************************************************************)
DirtyPropertyList(all) == [all_dirty |-> all, dirty_list |-> {}]

\* DirtyPropertyList::Insert (one name or a list of names)
DirtyInsert(d, names) ==
    IF d.all_dirty THEN d ELSE [d EXCEPT !.dirty_list = @ \cup names]

\* DirtyPropertyList::DirtyAll
DirtyAll(d) == [all_dirty |-> TRUE, dirty_list |-> {}]

\* DirtyPropertyList::Empty
DirtyEmpty(d) == ~d.all_dirty /\ d.dirty_list = {}

(***************************************************************************)
(* Style::ComputedValues and the conversions of ComputeProperty.h.         *)
(***************************************************************************)
LineHeight(v, t, iv) == [value |-> v, inherit_type |-> t, inherit_value |-> iv]

DefaultComputedValues ==
    [font_size   |-> 120,
     line_height |-> LineHeight(144, "Number", 120),
     color       |-> "white",
     width       |-> [type |-> "Auto", value |-> 0]]

\* ComputeFontsize: px is absolute, em is relative to the parent's font size
ComputeFontsize(p, parent_font_size) ==
    IF p.unit = "em" THEN (p.value * parent_font_size) \div 100 ELSE p.value

\* ComputeLineHeight: a length is kept; a number is a multiple of the font size
ComputeLineHeight(p, font_size) ==
    IF p.unit = "number"
    THEN LineHeight((font_size * p.value) \div 100, "Number", p.value)
    ELSE LineHeight(p.value, "Length", p.value)

\* ComputeLengthPercentageAuto: keyword auto, px, or em against the font size
ComputeLengthPercentageAuto(p, font_size) ==
    CASE p.unit = "keyword" -> [type |-> "Auto", value |-> 0]
      [] p.unit = "em"      -> [type |-> "Length", value |-> (p.value * font_size) \div 100]
      [] OTHER              -> [type |-> "Length", value |-> p.value]

(***************************************************************************)
(* ElementStyle: the state of every element, and the record of the last    *)
(* call (what was called, what it returned, which collaborators it called).*)
(***************************************************************************)
VARIABLES
    local_properties,   \* element -> [allocated, map]: the PropertyDictionary, NULL until allocated
    pseudo_classes,     \* element -> sequence of pseudo-class names
    classes,            \* element -> sequence of class names
    definition,         \* element -> definition id or NULL
    definition_dirty,   \* element -> BOOLEAN
    dirty_properties,   \* element -> DirtyPropertyList
    values,             \* element -> Style::ComputedValues (Element::GetComputedValues)
    reference_count,    \* definition id -> references handed out and not yet released
    last,               \* the last call
    steps,              \* calls made so far
    alive               \* the elements whose ElementStyle exists

vars == <<local_properties, pseudo_classes, classes, definition, definition_dirty,
          dirty_properties, values, reference_count, last, steps, alive>>

\* a PropertyDictionary: every registered name maps to its Property or to NoProperty
EmptyDictionary == [n \in RegisteredProperties |-> NoProperty]

\* PropertyDictionary::GetProperty
DictionaryGetProperty(dict, name) ==
    IF name \in DOMAIN dict THEN dict[name] ELSE NoProperty

\* the names a PropertyDictionary holds
DictionaryNames(dict) == {n \in DOMAIN dict : dict[n] # NoProperty}

varsButSteps == <<local_properties, pseudo_classes, classes, definition, definition_dirty,
                  dirty_properties, values, reference_count, last>>

\* the first Property when there is one, else the second
PropertyOr(property, otherwise) == IF property # NoProperty THEN property ELSE otherwise

\* local_properties->GetProperty(name), when local_properties is not NULL
LocalOverride(local, name) ==
    IF local.allocated THEN DictionaryGetProperty(local.map, name) ELSE NoProperty

\* definition->GetProperty(name, pseudo_classes), when definition is not NULL
DefinitionProperty(def, name, pcs) ==
    IF def # NULL THEN DefinitionGetProperty(Definitions[def], name, pcs) ELSE NoProperty

\* ElementStyle::GetLocalProperty(name, local_properties, definition, pseudo_classes)
GetLocalPropertyStatic(name, local, def, pcs) ==
    PropertyOr(LocalOverride(local, name), DefinitionProperty(def, name, pcs))

\* ElementStyle::GetLocalProperty(name)
GetLocalProperty(e, name) ==
    GetLocalPropertyStatic(name, local_properties[e], definition[e], pseudo_classes[e])

RECURSIVE ParentWalkOverrideOnly(_, _)
\* ParentWalk gone wrong: only the local override of each parent is tested
ParentWalkOverrideOnly(name, parent) ==
    IF parent = NULL THEN NoProperty
    ELSE PropertyOr(LocalOverride(local_properties[parent], name),
                    ParentWalkOverrideOnly(name, GetParentNode(parent)))

RECURSIVE ParentWalk(_, _)
\* the while loop of GetProperty: the first parent whose GetLocalProperty(name)
\* is not NULL supplies the value
ParentWalk(name, parent) ==
    IF parent = NULL THEN NoProperty
    ELSE PropertyOr(GetLocalProperty(parent, name), ParentWalk(name, GetParentNode(parent)))

\* InheritedOrDefault gone wrong: no default value is returned
InheritedOrDefaultNoDefault(name, element, property) ==
    IF property.registered /\ property.inherited
    THEN ParentWalk(name, GetParentNode(element))
    ELSE NoProperty

\* InheritedOrDefault gone wrong: the parents are walked for every registered
\* name, inherited or not
InheritedOrDefaultAlways(name, element, property) ==
    IF ~property.registered THEN NoProperty
    ELSE PropertyOr(ParentWalk(name, GetParentNode(element)), property.default)

\* GetProperty past the element's own value: NULL for an unregistered name, the
\* parents' value for an inherited one, else the default value
InheritedOrDefault(name, element, property) ==
    IF ~property.registered THEN NoProperty
    ELSE IF property.inherited
    THEN PropertyOr(ParentWalk(name, GetParentNode(element)), property.default)
    ELSE property.default

\* ElementStyle::GetProperty(name, element, local_properties, definition, pseudo_classes)
GetPropertyStatic(name, element, local, def, pcs) ==
    PropertyOr(GetLocalPropertyStatic(name, local, def, pcs),
               InheritedOrDefault(name, element, SpecificationGetProperty(name)))

\* ElementStyle::GetProperty(name)
GetProperty(e, name) ==
    GetPropertyStatic(name, e, local_properties[e], definition[e], pseudo_classes[e])

(***************************************************************************)
(* Calls into collaborators, recorded in last.calls.                       *)
(***************************************************************************)
Call(c, e, n, from, to, b) ==
    [call |-> c, element |-> e, name |-> n, start |-> from, target |-> to, flag |-> b]

\* ElementDecoration::DirtyDecorators(force)
CallDirtyDecorators(e, force) == Call("DirtyDecorators", e, "", NoProperty, NoProperty, force)
\* Element::DirtyFont()
CallDirtyFont(e) == Call("DirtyFont", e, "", NoProperty, NoProperty, FALSE)
\* StyleSheet::GetElementDefinition(element)
CallGetElementDefinition(e) == Call("GetElementDefinition", e, "", NoProperty, NoProperty, FALSE)
\* Element::StartTransition(transition, start_value, target_value), with its answer
CallStartTransition(e, n, from, to, accepted) == Call("StartTransition", e, n, from, to, accepted)
\* Log::Message(LT_WARNING, ...)
CallLog(e, n) == Call("Log", e, n, NoProperty, NoProperty, FALSE)

(***************************************************************************)
(* ElementStyle::TransitionPropertyChanges.                                *)
(***************************************************************************)
\* the names the two loops look at, in order: every name of `properties` for
\* transition: all, else the listed names found in `properties`
TransitionListNames(properties, transition_list) ==
    IF transition_list.none THEN <<>>
    ELSE IF transition_list.all THEN Ordered(properties)
    ELSE SelectSeq(transition_list.transitions, LAMBDA n : n \in properties)

\* the same, from the transition Property of the element (possibly NULL)
TransitionNames(properties, transition_property) ==
    IF transition_property = NoProperty THEN <<>>
    ELSE TransitionListNames(properties, transition_property.value)

\* the start value of add_transition
TransitionStart(name, element, local, old_definition, pcs_before) ==
    GetPropertyStatic(name, element, local, old_definition, pcs_before)

\* the target value of add_transition: looked up without the local properties
TransitionTarget(name, element, new_definition, pcs_after) ==
    GetPropertyStatic(name, element, [allocated |-> FALSE, map |-> EmptyDictionary],
                      new_definition, pcs_after)

\* the condition under which add_transition calls Element::StartTransition
ShouldStart(a) == a.start # NoProperty /\ a.target # NoProperty /\ a.start # a.target

\* the start and target value add_transition finds for each name
TransitionValues(names, element, local, old_definition, new_definition, pcs_before, pcs_after) ==
    [i \in DOMAIN names |->
        [name   |-> names[i],
         start  |-> TransitionStart(names[i], element, local, old_definition, pcs_before),
         target |-> TransitionTarget(names[i], element, new_definition, pcs_after)]]

\* the transitions for which Element::StartTransition is called, in order
TransitionAttempts(element, properties, local, old_definition, new_definition, pcs_before, pcs_after) ==
    IF old_definition = NULL \/ new_definition = NULL \/ properties = {} THEN <<>>
    ELSE SelectSeq(
            TransitionValues(
                TransitionNames(properties,
                    GetLocalPropertyStatic(TRANSITION, local, new_definition, pcs_after)),
                element, local, old_definition, new_definition, pcs_before, pcs_after),
            ShouldStart)

\* the names of the attempted transitions
AttemptNames(attempts) == {attempts[i].name : i \in DOMAIN attempts}

\* the calls of Element::StartTransition, `accepted` being the names for which it
\* returns true
TransitionCalls(element, attempts, accepted) ==
    [i \in DOMAIN attempts |->
        CallStartTransition(element, attempts[i].name, attempts[i].start, attempts[i].target,
                            attempts[i].name \in accepted)]

\* a variant that leaves the names of accepted transitions in the set to dirty
TransitionPropertyChangesKeepAll(properties, attempts, accepted) == properties

\* `properties` as TransitionPropertyChanges leaves it: the names whose transition
\* was started are erased
TransitionPropertyChanges(properties, attempts, accepted) ==
    properties \ (AttemptNames(attempts) \cap accepted)

(***************************************************************************)
(* ElementStyle::DirtyDefinition / DirtyChildDefinitions.                  *)
(***************************************************************************)
\* DirtyChildDefinitions gone wrong: the children are marked, their children are not
DirtyChildDefinitionsShallow(e) == Children(e)

RECURSIVE DirtyChildDefinitions(_)
\* the elements whose definition_dirty DirtyChildDefinitions() on e sets: each
\* child gets DirtyDefinition(), which sets its flag and recurses into its children
DirtyChildDefinitions(e) ==
    UNION {{c} \cup DirtyChildDefinitions(c) : c \in Children(e)}

\* DirtyDefinition gone wrong: the children are not told
DirtyDefinitionSelf(e) == {e}

\* the elements whose definition_dirty DirtyDefinition() on e sets
DirtyDefinition(e) == {e} \cup DirtyChildDefinitions(e)

\* definition_dirty after the flag is set on `marked`
MarkDefinitionDirty(marked) ==
    [x \in Elements |-> IF x \in marked THEN TRUE ELSE definition_dirty[x]]

\* the state the called element was in when the call was made
Pre(e) ==
    [local_properties |-> local_properties[e],
     pseudo_classes   |-> pseudo_classes[e],
     classes          |-> classes[e],
     definition       |-> definition[e],
     definition_dirty |-> definition_dirty,
     dirty_properties |-> dirty_properties[e],
     values           |-> values[e],
     others           |-> [dirty_properties |-> dirty_properties, values |-> values]]

\* the record of a call: what was called on which element, what it answered
\* (ok, returned), the calls it made, and the state it was made in
Last(op, e, arg, activate, ok, returned, calls) ==
    [op |-> op, element |-> e, arg |-> arg, activate |-> activate, ok |-> ok,
     returned |-> returned, calls |-> calls, pre |-> Pre(e)]

(***************************************************************************)
(* ElementStyle::SetPseudoClass.                                           *)
(***************************************************************************)
\* ErasePseudoClass gone wrong: a single erase instead of the loop
ErasePseudoClassOnce(list, pseudo_class) == EraseFirst(list, pseudo_class)

RECURSIVE ErasePseudoClass(_, _)
\* the find/erase loop: erase the first occurrence while there is one
ErasePseudoClass(list, pseudo_class) ==
    IF Contains(list, pseudo_class)
    THEN ErasePseudoClass(EraseFirst(list, pseudo_class), pseudo_class)
    ELSE list

\* PseudoClassesAfter gone wrong: an activated pseudo-class is put at the front
PseudoClassesAfterFront(list, pseudo_class, activate) ==
    IF activate THEN <<pseudo_class>> \o list ELSE ErasePseudoClass(list, pseudo_class)

\* PseudoClassesAfter gone wrong: a pseudo-class that is in the list is not appended
PseudoClassesAfterOnce(list, pseudo_class, activate) ==
    IF activate
    THEN (IF Contains(list, pseudo_class) THEN list ELSE Append(list, pseudo_class))
    ELSE ErasePseudoClass(list, pseudo_class)

\* the pseudo-class list after the first half of SetPseudoClass
PseudoClassesAfter(list, pseudo_class, activate) ==
    IF activate THEN Append(list, pseudo_class) ELSE ErasePseudoClass(list, pseudo_class)

\* ElementStyle::IsPseudoClassSet
IsPseudoClassSet(e, pseudo_class) == Contains(pseudo_classes[e], pseudo_class)

\* VolatilityDefinitionDirty gone wrong: every pseudo-class is taken to be structurally volatile
VolatilityDefinitionDirtyAlways(e, volatility) == MarkDefinitionDirty(DirtyChildDefinitions(e))

\* the switch on the volatility of the pseudo-class: the definition_dirty flags after it
VolatilityDefinitionDirty(e, volatility) ==
    IF volatility = STRUCTURE_VOLATILE
    THEN MarkDefinitionDirty(DirtyChildDefinitions(e))
    ELSE definition_dirty

\* the switch on the volatility of the pseudo-class: the call it makes
VolatilityCalls(e, volatility) ==
    IF volatility = FONT_VOLATILE THEN <<CallDirtyFont(e)>> ELSE <<>>

\* SetPseudoClass from the transitions on: the size changed and a definition is attached
SetPseudoClassDirty(e, pseudo_class, activate, properties, attempts, volatility) ==
    \E accepted \in SUBSET AttemptNames(attempts) :
        /\ dirty_properties' = [dirty_properties EXCEPT ![e] =
               DirtyInsert(@, TransitionPropertyChanges(properties, attempts, accepted))]
        /\ definition_dirty' = VolatilityDefinitionDirty(e, volatility)
        /\ last' = Last("SetPseudoClass", e, pseudo_class, activate, TRUE,
                        DirtyPropertyList(FALSE),
                        <<CallDirtyDecorators(e, FALSE)>>
                        \o TransitionCalls(e, attempts, accepted)
                        \o VolatilityCalls(e, volatility))

\* SetPseudoClass from GetDefinedProperties on
SetPseudoClassDefined(e, pseudo_class, activate, before, after, properties) ==
    SetPseudoClassDirty(e, pseudo_class, activate, properties,
        TransitionAttempts(e, properties, local_properties[e], definition[e], definition[e],
                           before, after),
        GetPseudoClassVolatility(Definitions[definition[e]], pseudo_class))

\* SetPseudoClassTo gone wrong: the size of the list is not compared
SetPseudoClassToUnconditional(e, pseudo_class, activate, before, after) ==
    /\ pseudo_classes' = [pseudo_classes EXCEPT ![e] = after]
    /\ IF definition[e] # NULL
       THEN SetPseudoClassDefined(e, pseudo_class, activate, before, after,
                GetDefinedPropertiesFor(Definitions[definition[e]], after, pseudo_class))
       ELSE /\ UNCHANGED <<dirty_properties, definition_dirty>>
            /\ last' = Last("SetPseudoClass", e, pseudo_class, activate, TRUE,
                            DirtyPropertyList(FALSE), <<CallDirtyDecorators(e, FALSE)>>)

\* SetPseudoClass once the list is updated
SetPseudoClassTo(e, pseudo_class, activate, before, after) ==
    /\ pseudo_classes' = [pseudo_classes EXCEPT ![e] = after]
    /\ IF Len(after) # Len(before) /\ definition[e] # NULL
       THEN SetPseudoClassDefined(e, pseudo_class, activate, before, after,
                GetDefinedPropertiesFor(Definitions[definition[e]], after, pseudo_class))
       ELSE /\ UNCHANGED <<dirty_properties, definition_dirty>>
            /\ last' = Last("SetPseudoClass", e, pseudo_class, activate,
                            Len(after) # Len(before), DirtyPropertyList(FALSE),
                            IF Len(after) # Len(before)
                            THEN <<CallDirtyDecorators(e, FALSE)>> ELSE <<>>)

\* ElementStyle::SetPseudoClass
SetPseudoClass(e, pseudo_class, activate) ==
    /\ activate => Len(pseudo_classes[e]) < MaxPseudoClasses
    /\ SetPseudoClassTo(e, pseudo_class, activate, pseudo_classes[e],
                        PseudoClassesAfter(pseudo_classes[e], pseudo_class, activate))
    /\ UNCHANGED <<local_properties, classes, definition, values, reference_count>>

(***************************************************************************)
(* ElementStyle::SetClass, IsClassSet, SetClassNames.                      *)
(***************************************************************************)
\* ElementStyle::IsClassSet
IsClassSet(e, class_name) == Contains(classes[e], class_name)

SetClass(e, class_name, activate) ==
    /\ LET found == Contains(classes[e], class_name)
           changed == IF activate THEN ~found ELSE found
       IN  /\ classes' = [classes EXCEPT ![e] =
                             IF activate
                             THEN (IF found THEN @ ELSE Append(@, class_name))
                             ELSE (IF found THEN EraseFirst(@, class_name) ELSE @)]
           /\ definition_dirty' =
                  IF changed THEN MarkDefinitionDirty(DirtyDefinition(e)) ELSE definition_dirty
           /\ last' = Last("SetClass", e, class_name, activate, changed,
                           DirtyPropertyList(FALSE), <<>>)
    /\ UNCHANGED <<local_properties, pseudo_classes, definition, dirty_properties, values,
                   reference_count>>

RECURSIVE ExpandString(_, _, _)
\* StringUtilities::ExpandString(list, string, ' '): the string is a sequence of
\* characters; every maximal run without the delimiter becomes one entry.
\* `token` is the run read so far.
ExpandString(string, delimiter, token) ==
    IF string = <<>> THEN (IF token = "" THEN <<>> ELSE <<token>>)
    ELSE IF Head(string) = delimiter
    THEN (IF token = "" THEN <<>> ELSE <<token>>) \o ExpandString(Tail(string), delimiter, "")
    ELSE ExpandString(Tail(string), delimiter, token \o Head(string))

RECURSIVE Join(_)
\* the characters of a string, as one string
Join(string) == IF string = <<>> THEN "" ELSE Head(string) \o Join(Tail(string))

\* the strings SetClassNames is called with
ClassNameStrings == { <<"a", " ", "b">>, <<"a", " ", "a">> }

SetClassNames(e, class_names) ==
    /\ classes' = [classes EXCEPT ![e] = ExpandString(class_names, " ", "")]
    /\ definition_dirty' = MarkDefinitionDirty(DirtyDefinition(e))
    /\ last' = Last("SetClassNames", e, Join(class_names), TRUE, TRUE,
                    DirtyPropertyList(FALSE), <<>>)
    /\ UNCHANGED <<local_properties, pseudo_classes, definition, dirty_properties, values,
                   reference_count>>

(***************************************************************************)
(* ElementStyle::SetProperty (both overloads), RemoveProperty.             *)
(***************************************************************************)
\* StyleSheetSpecification::ParsePropertyDeclaration(dictionary, name, value): the
\* parsed Property, or NoProperty when the name is unknown or the text malformed
ParsePropertyDeclaration(name, value) ==
    CASE name = COLOR /\ value \in {"red", "blue", "green"} -> Colour(value)
      [] name = FONT_SIZE /\ value = "20px"                 -> Px(200)
      [] name = FONT_SIZE /\ value = "16px"                 -> Px(160)
      [] name = LINE_HEIGHT /\ value = "30px"               -> Px(300)
      [] name = WIDTH /\ value = "10px"                     -> Px(100)
      [] OTHER                                              -> NoProperty

\* the declarations SetProperty(name, text) is called with
PropertyStrings == { <<COLOR, "blue">>, <<FONT_SIZE, "20px">>, <<COLOR, "bluu">> }

\* the values SetProperty(name, Property) is called with
PropertyValues == { <<LINE_HEIGHT, Px(300)>>, <<"bogus", Px(100)>> }

\* the names RemoveProperty is called with
RemoveNames == {COLOR, FONT_SIZE}

\* ElementStyle::GetLocalProperties() != NULL
GetLocalProperties(e) == local_properties[e].allocated

\* ElementStyle::AnyPropertiesDirty
AnyPropertiesDirty(e) == ~DirtyEmpty(dirty_properties[e])

\* SetProperty gone wrong: the name is not made dirty
SetPropertyNoDirty(e, name, value) ==
    /\ local_properties' = [local_properties EXCEPT ![e] =
           [allocated |-> TRUE,
            map |-> IF ParsePropertyDeclaration(name, value) # NoProperty
                    THEN [@.map EXCEPT ![name] = ParsePropertyDeclaration(name, value)]
                    ELSE @.map]]
    /\ last' = Last("SetProperty", e, name, FALSE,
                    ParsePropertyDeclaration(name, value) # NoProperty,
                    DirtyPropertyList(FALSE), <<>>)
    /\ UNCHANGED <<pseudo_classes, classes, definition, definition_dirty, dirty_properties,
                   values, reference_count>>

\* ElementStyle::SetProperty(const String& name, const String& value)
SetProperty(e, name, value) ==
    /\ LET parsed == ParsePropertyDeclaration(name, value)
           ok == parsed # NoProperty
       IN  /\ local_properties' = [local_properties EXCEPT ![e] =
                  [allocated |-> TRUE,
                   map |-> IF ok THEN [@.map EXCEPT ![name] = parsed] ELSE @.map]]
           /\ dirty_properties' =
                  IF ok THEN [dirty_properties EXCEPT ![e] = DirtyInsert(@, {name})]
                  ELSE dirty_properties
           /\ last' = Last("SetProperty", e, name, FALSE, ok, DirtyPropertyList(FALSE),
                           IF ok THEN <<>> ELSE <<CallLog(e, name)>>)
    /\ UNCHANGED <<pseudo_classes, classes, definition, definition_dirty, values, reference_count>>

\* ElementStyle::SetProperty(const String& name, const Property& property)
SetPropertyValue(e, name, property) ==
    /\ LET ok == SpecificationGetProperty(name).registered
       IN  /\ local_properties' =
                  IF ok
                  THEN [local_properties EXCEPT ![e] =
                           [allocated |-> TRUE, map |-> [@.map EXCEPT ![name] = property]]]
                  ELSE local_properties
           /\ dirty_properties' =
                  IF ok THEN [dirty_properties EXCEPT ![e] = DirtyInsert(@, {name})]
                  ELSE dirty_properties
           /\ last' = Last("SetPropertyValue", e, name, FALSE, ok, DirtyPropertyList(FALSE), <<>>)
    /\ UNCHANGED <<pseudo_classes, classes, definition, definition_dirty, values, reference_count>>

\* RemoveProperty gone wrong: every property is made dirty
RemovePropertyDirtyAll(e, name) ==
    /\ LET found == /\ local_properties[e].allocated
                    /\ DictionaryGetProperty(local_properties[e].map, name) # NoProperty
       IN  /\ local_properties' =
                  IF found
                  THEN [local_properties EXCEPT ![e].map = [@ EXCEPT ![name] = NoProperty]]
                  ELSE local_properties
           /\ dirty_properties' =
                  IF found THEN [dirty_properties EXCEPT ![e] = DirtyAll(@)]
                  ELSE dirty_properties
           /\ last' = Last("RemoveProperty", e, name, FALSE, found, DirtyPropertyList(FALSE), <<>>)
    /\ UNCHANGED <<pseudo_classes, classes, definition, definition_dirty, values, reference_count>>

\* ElementStyle::RemoveProperty
RemoveProperty(e, name) ==
    /\ LET found == /\ local_properties[e].allocated
                    /\ DictionaryGetProperty(local_properties[e].map, name) # NoProperty
       IN  /\ local_properties' =
                  IF found
                  THEN [local_properties EXCEPT ![e].map = [@ EXCEPT ![name] = NoProperty]]
                  ELSE local_properties
           /\ dirty_properties' =
                  IF found THEN [dirty_properties EXCEPT ![e] = DirtyInsert(@, {name})]
                  ELSE dirty_properties
           /\ last' = Last("RemoveProperty", e, name, FALSE, found, DirtyPropertyList(FALSE), <<>>)
    /\ UNCHANGED <<pseudo_classes, classes, definition, definition_dirty, values, reference_count>>

(***************************************************************************)
(* ElementStyle::UpdateDefinition.                                         *)
(***************************************************************************)
\* reference_count after AddReference (by GetElementDefinition) or RemoveReference
AddReference(rc, d) == IF d = NULL THEN rc ELSE [rc EXCEPT ![d] = @ + 1]

\* RemoveReference gone wrong: the reference is kept
RemoveReferenceNever(rc, d) == rc

RemoveReference(rc, d) == IF d = NULL THEN rc ELSE [rc EXCEPT ![d] = @ - 1]

\* definition->GetDefinedProperties(properties, pseudo_classes), when definition is not NULL
DefinedProperties(def, pcs) ==
    IF def = NULL THEN {} ELSE GetDefinedProperties(Definitions[def], pcs)

\* UpdateDefinitionSwitch gone wrong: the defined names are not made dirty
UpdateDefinitionSwitchNoDirty(e, new_definition, properties, attempts) ==
    \E accepted \in SUBSET AttemptNames(attempts) :
        /\ reference_count' =
               RemoveReference(AddReference(reference_count, new_definition), definition[e])
        /\ definition' = [definition EXCEPT ![e] = new_definition]
        /\ UNCHANGED dirty_properties
        /\ last' = Last("UpdateDefinition", e, "", FALSE, TRUE, DirtyPropertyList(FALSE),
                        <<CallGetElementDefinition(e)>>
                        \o TransitionCalls(e, attempts, accepted)
                        \o <<CallDirtyDecorators(e, TRUE)>>)

\* UpdateDefinition from the transitions on: the definition is switched
UpdateDefinitionSwitch(e, new_definition, properties, attempts) ==
    \E accepted \in SUBSET AttemptNames(attempts) :
        /\ reference_count' =
               RemoveReference(AddReference(reference_count, new_definition), definition[e])
        /\ definition' = [definition EXCEPT ![e] = new_definition]
        /\ dirty_properties' = [dirty_properties EXCEPT ![e] =
               DirtyInsert(@, TransitionPropertyChanges(properties, attempts, accepted))]
        /\ last' = Last("UpdateDefinition", e, "", FALSE, TRUE, DirtyPropertyList(FALSE),
                        <<CallGetElementDefinition(e)>>
                        \o TransitionCalls(e, attempts, accepted)
                        \o <<CallDirtyDecorators(e, TRUE)>>)

\* UpdateDefinition from GetDefinedProperties on
UpdateDefinitionProperties(e, new_definition, properties) ==
    UpdateDefinitionSwitch(e, new_definition, properties,
        TransitionAttempts(e, properties, local_properties[e], definition[e], new_definition,
                           pseudo_classes[e], pseudo_classes[e]))

\* UpdateDefinitionTo gone wrong: an empty result for an element without a
\* definition counts as unchanged
UpdateDefinitionToIdentityOnly(e, new_definition) ==
    IF new_definition # definition[e]
    THEN UpdateDefinitionProperties(e, new_definition,
             DefinedProperties(definition[e], pseudo_classes[e])
             \cup DefinedProperties(new_definition, pseudo_classes[e]))
    ELSE /\ reference_count' =
                RemoveReference(AddReference(reference_count, new_definition), new_definition)
         /\ UNCHANGED <<definition, dirty_properties>>
         /\ last' = Last("UpdateDefinition", e, "", FALSE, FALSE, DirtyPropertyList(FALSE),
                         <<CallGetElementDefinition(e)>>)

\* UpdateDefinition once the style sheet has handed out new_definition
UpdateDefinitionTo(e, new_definition) ==
    IF new_definition # definition[e] \/ new_definition = NULL
    THEN UpdateDefinitionProperties(e, new_definition,
             DefinedProperties(definition[e], pseudo_classes[e])
             \cup DefinedProperties(new_definition, pseudo_classes[e]))
    ELSE /\ reference_count' =
                RemoveReference(AddReference(reference_count, new_definition), new_definition)
         /\ UNCHANGED <<definition, dirty_properties>>
         /\ last' = Last("UpdateDefinition", e, "", FALSE, FALSE, DirtyPropertyList(FALSE),
                         <<CallGetElementDefinition(e)>>)

\* UpdateDefinition gone wrong: the Definition is resolved whether or not
\* definition_dirty is set
UpdateDefinitionAlways(e) ==
    /\ definition_dirty' = [definition_dirty EXCEPT ![e] = FALSE]
    /\ UpdateDefinitionTo(e, GetElementDefinition(classes[e]))
    /\ UNCHANGED <<local_properties, pseudo_classes, classes, values>>

\* ElementStyle::UpdateDefinition
UpdateDefinition(e) ==
    /\ IF definition_dirty[e]
       THEN /\ definition_dirty' = [definition_dirty EXCEPT ![e] = FALSE]
            /\ UpdateDefinitionTo(e, GetElementDefinition(classes[e]))
       ELSE /\ UNCHANGED <<definition, definition_dirty, dirty_properties, reference_count>>
            /\ last' = Last("UpdateDefinition", e, "", FALSE, FALSE, DirtyPropertyList(FALSE), <<>>)
    /\ UNCHANGED <<local_properties, pseudo_classes, classes, values>>

(***************************************************************************)
(* ElementStyleIterator (ElementStyle::begin/end): the local properties,   *)
(* then the entries of the definition's iterator whose name has no local   *)
(* property.                                                               *)
(***************************************************************************)
\* the names of the local properties (none when local_properties is NULL)
LocalNames(local) == IF local.allocated THEN DictionaryNames(local.map) ELSE {}

\* the local properties under `keys`, as entries
LocalEntries(local, keys) ==
    [i \in DOMAIN keys |->
        [name |-> keys[i], property |-> local.map[keys[i]], pseudo_class_list |-> NULL]]

\* the entries of the definition's iterator whose name is not in `hidden`
DefinitionEntries(def, pcs, hidden) ==
    IF def = NULL THEN <<>>
    ELSE SelectSeq(DefinitionIterate(Definitions[def], pcs),
                   LAMBDA entry : entry.name \notin hidden)

\* the sequence a range-for over the ElementStyle visits
ElementStyleIterate(local, def, pcs) ==
    LocalEntries(local, Ordered(LocalNames(local)))
    \o DefinitionEntries(def, pcs, LocalNames(local))

(***************************************************************************)
(* ElementStyle::ComputeValues.                                            *)
(***************************************************************************)
\* DirtyEmProperties gone wrong: nothing becomes dirty
DirtyEmPropertiesNone(dirty) == dirty

\* DirtyEmProperties (the compiled branch): every property becomes dirty
DirtyEmProperties(dirty) == DirtyAll(dirty)

\* AssignProperty gone wrong: the color is not assigned
AssignPropertyNoColor(v, name, p, font_size) ==
    IF name = WIDTH THEN [v EXCEPT !.width = ComputeLengthPercentageAuto(p, font_size)] ELSE v

\* one step of the name dispatch in the loop over *this
AssignProperty(v, name, p, font_size) ==
    CASE name = WIDTH -> [v EXCEPT !.width = ComputeLengthPercentageAuto(p, font_size)]
      [] name = COLOR -> [v EXCEPT !.color = p.value]
      [] OTHER        -> v

RECURSIVE AssignAll(_, _, _)
\* the loop over *this: later entries overwrite earlier ones
AssignAll(v, entries, font_size) ==
    IF entries = <<>> THEN v
    ELSE AssignAll(AssignProperty(v, Head(entries).name, Head(entries).property, font_size),
                   Tail(entries), font_size)

\* parent_values->font_size, or `otherwise` when parent_values is NULL
ParentFontSize(parent, otherwise) ==
    IF parent = NULL THEN otherwise ELSE values[parent].font_size

\* the font size ComputeValues resolves from the font-size Property p
FontSizeFrom(p, parent, v) ==
    IF p # NoProperty
    THEN ComputeFontsize(p, ParentFontSize(parent, DefaultComputedValues.font_size))
    ELSE ParentFontSize(parent, v.font_size)

\* the font size ComputeValues resolves
ResolveFontSize(e, v) == FontSizeFrom(GetLocalProperty(e, FONT_SIZE), GetParentNode(e), v)

\* ParentLineHeight gone wrong: the parent's record is always taken as it is
ParentLineHeightVerbatim(parent_line_height, font_size) == parent_line_height

\* the line height inherited from parent_values
ParentLineHeight(parent_line_height, font_size) ==
    IF parent_line_height.inherit_type = "Number"
    THEN LineHeight((font_size * parent_line_height.inherit_value) \div 100, "Number",
                    parent_line_height.inherit_value)
    ELSE parent_line_height

\* the line height ComputeValues resolves from the line-height Property p
LineHeightFrom(p, parent, v, font_size) ==
    IF p # NoProperty THEN ComputeLineHeight(p, font_size)
    ELSE IF parent # NULL THEN ParentLineHeight(values[parent].line_height, font_size)
    ELSE v.line_height

\* the line height ComputeValues resolves
ResolveLineHeight(e, v, font_size) ==
    LineHeightFrom(GetLocalProperty(e, LINE_HEIGHT), GetParentNode(e), v, font_size)

\* the properties copied from the parent's values before the loop
InheritFromParent(e, v) ==
    IF GetParentNode(e) # NULL THEN [v EXCEPT !.color = values[GetParentNode(e)].color] ELSE v

\* DirtyDuring gone wrong: ComputeValues adds nothing to the dirty list
DirtyDuringNothing(dirty, font_size_changed, line_height_changed) == dirty

\* the dirty list as ComputeValues itself extends it
DirtyDuring(dirty, font_size_changed, line_height_changed) ==
    IF font_size_changed THEN DirtyEmProperties(dirty)
    ELSE IF line_height_changed THEN DirtyInsert(dirty, {VERTICAL_ALIGN})
    ELSE dirty

\* DirtyInherited gone wrong: no name is passed on
DirtyInheritedNone(dirty) == {}

\* DirtyInherited gone wrong: every inherited name is passed on
DirtyInheritedEverything(dirty) == RegisteredInheritedProperties

\* the names passed to the children: all inherited names, or the dirty inherited ones
DirtyInherited(dirty) ==
    IF dirty.all_dirty THEN RegisteredInheritedProperties
    ELSE RegisteredInheritedProperties \cap dirty.dirty_list

\* ComputeValuesLoop gone wrong: the loop does not see the local properties
ComputeValuesLoopNoLocal(e, v, font_size, line_height) ==
    [values |-> AssignAll(InheritFromParent(e, [v EXCEPT !.font_size = font_size,
                                                         !.line_height = line_height]),
                          ElementStyleIterate([allocated |-> FALSE, map |-> EmptyDictionary],
                                              definition[e], pseudo_classes[e]),
                          font_size),
     dirty  |-> DirtyDuring(dirty_properties[e], values[e].font_size # font_size,
                            values[e].line_height.value # line_height.value)]

\* ComputeValues from the copy of the parent's values on
ComputeValuesLoop(e, v, font_size, line_height) ==
    [values |-> AssignAll(InheritFromParent(e, [v EXCEPT !.font_size = font_size,
                                                         !.line_height = line_height]),
                          ElementStyleIterate(local_properties[e], definition[e],
                                              pseudo_classes[e]),
                          font_size),
     dirty  |-> DirtyDuring(dirty_properties[e], values[e].font_size # font_size,
                            values[e].line_height.value # line_height.value)]

\* ComputeValues from the line height on
ComputeValuesSized(e, v, font_size) ==
    ComputeValuesLoop(e, v, font_size, ResolveLineHeight(e, v, font_size))

\* the whole computation, for a non-empty dirty list: the new values and the
\* dirty list as it stands when it is handed out
ComputeValuesResult(e, values_are_default_initialized) ==
    ComputeValuesSized(e,
        IF values_are_default_initialized THEN values[e] ELSE DefaultComputedValues,
        ResolveFontSize(e, IF values_are_default_initialized THEN values[e]
                           ELSE DefaultComputedValues))

\* ComputeValuesStore gone wrong: the dirty list is handed out but not cleared
ComputeValuesStoreKeepsDirty(e, values_are_default_initialized, r) ==
    /\ values' = [values EXCEPT ![e] = r.values]
    /\ dirty_properties' =
           [x \in Elements |->
               IF x = e THEN r.dirty
               ELSE IF x \in Children(e) /\ DirtyInherited(r.dirty) # {}
               THEN DirtyInsert(dirty_properties[x], DirtyInherited(r.dirty))
               ELSE dirty_properties[x]]
    /\ last' = Last("ComputeValues", e, "", values_are_default_initialized, TRUE, r.dirty, <<>>)

\* ComputeValuesStore gone wrong: every other element is told, not the children only
ComputeValuesStoreTellsAll(e, values_are_default_initialized, r) ==
    /\ values' = [values EXCEPT ![e] = r.values]
    /\ dirty_properties' =
           [x \in Elements |->
               IF x = e THEN DirtyPropertyList(FALSE)
               ELSE IF DirtyInherited(r.dirty) # {}
               THEN DirtyInsert(dirty_properties[x], DirtyInherited(r.dirty))
               ELSE dirty_properties[x]]
    /\ last' = Last("ComputeValues", e, "", values_are_default_initialized, TRUE, r.dirty, <<>>)

\* the end of ComputeValues: the values are stored, the children are told, the
\* dirty list is handed out and cleared
ComputeValuesStore(e, values_are_default_initialized, r) ==
    /\ values' = [values EXCEPT ![e] = r.values]
    /\ dirty_properties' =
           [x \in Elements |->
               IF x = e THEN DirtyPropertyList(FALSE)
               ELSE IF x \in Children(e) /\ DirtyInherited(r.dirty) # {}
               THEN DirtyInsert(dirty_properties[x], DirtyInherited(r.dirty))
               ELSE dirty_properties[x]]
    /\ last' = Last("ComputeValues", e, "", values_are_default_initialized, TRUE, r.dirty, <<>>)

\* ComputeValues gone wrong: an empty dirty list does not end the call
ComputeValuesAlways(e, values_are_default_initialized) ==
    /\ values_are_default_initialized => values[e] = DefaultComputedValues
    /\ ComputeValuesStore(e, values_are_default_initialized,
                          ComputeValuesResult(e, values_are_default_initialized))
    /\ UNCHANGED <<local_properties, pseudo_classes, classes, definition, definition_dirty,
                   reference_count>>

\* ElementStyle::ComputeValues
ComputeValues(e, values_are_default_initialized) ==
    /\ values_are_default_initialized => values[e] = DefaultComputedValues
    /\ IF DirtyEmpty(dirty_properties[e])
       THEN /\ UNCHANGED <<values, dirty_properties>>
            /\ last' = Last("ComputeValues", e, "", values_are_default_initialized, FALSE,
                            DirtyPropertyList(FALSE), <<>>)
       ELSE ComputeValuesStore(e, values_are_default_initialized,
                               ComputeValuesResult(e, values_are_default_initialized))
    /\ UNCHANGED <<local_properties, pseudo_classes, classes, definition, definition_dirty,
                   reference_count>>

(***************************************************************************)
(* ElementStyle::~ElementStyle.  An element is destroyed after its         *)
(* children.                                                               *)
(***************************************************************************)
\* ElementStyle::~ElementStyle: local_properties is deleted, the reference to
\* the definition is released
ElementStyleDestructor(e) ==
    /\ e \in alive
    /\ Children(e) \cap alive = {}
    /\ alive' = alive \ {e}
    /\ local_properties' = [local_properties EXCEPT ![e] =
                                [allocated |-> FALSE, map |-> EmptyDictionary]]
    /\ reference_count' = RemoveReference(reference_count, definition[e])
    /\ last' = Last("~ElementStyle", e, "", FALSE, TRUE, DirtyPropertyList(FALSE), <<>>)
    /\ UNCHANGED <<pseudo_classes, classes, definition, definition_dirty, dirty_properties,
                   values>>

(***************************************************************************)
(* The specification: elements are constructed, then any call is made.     *)
(***************************************************************************)
\* ElementStyle::ElementStyle, for every element
Init ==
    /\ local_properties = [e \in Elements |-> [allocated |-> FALSE, map |-> EmptyDictionary]]
    /\ pseudo_classes = [e \in Elements |-> <<>>]
    /\ classes = [e \in Elements |-> <<>>]
    /\ definition = [e \in Elements |-> NULL]
    /\ definition_dirty = [e \in Elements |-> TRUE]
    /\ dirty_properties = [e \in Elements |-> DirtyPropertyList(TRUE)]
    /\ values = [e \in Elements |-> DefaultComputedValues]
    /\ reference_count = [d \in DefinitionIds |-> 0]
    /\ last = [op |-> "construct", element |-> NULL, arg |-> "", activate |-> FALSE,
               ok |-> FALSE, returned |-> DirtyPropertyList(FALSE), calls |-> <<>>,
               pre |-> NULL]
    /\ steps = 0
    /\ alive = Elements

\* one more call is counted, up to `limit` calls
Step(limit) == steps < limit /\ steps' = steps + 1

\* the call is made on an ElementStyle that exists, and destroys none
OnLive(e) == e \in alive /\ UNCHANGED alive

Next ==
    \/ \E e \in Elements, pc \in PseudoClasses, activate \in BOOLEAN :
          Step(MaxSteps) /\ OnLive(e) /\ SetPseudoClass(e, pc, activate)
    \/ \E e \in Elements, c \in ClassNames, activate \in BOOLEAN :
          Step(MaxSteps) /\ OnLive(e) /\ SetClass(e, c, activate)
    \/ \E e \in Elements, s \in ClassNameStrings :
          Step(MaxSteps) /\ OnLive(e) /\ SetClassNames(e, s)
    \/ \E e \in Elements, d \in PropertyStrings :
          Step(MaxSteps) /\ OnLive(e) /\ SetProperty(e, d[1], d[2])
    \/ \E e \in Elements, d \in PropertyValues :
          Step(MaxSteps) /\ OnLive(e) /\ SetPropertyValue(e, d[1], d[2])
    \/ \E e \in Elements, n \in RemoveNames :
          Step(MaxSteps) /\ OnLive(e) /\ RemoveProperty(e, n)
    \/ \E e \in Elements :
          Step(MaxSteps) /\ OnLive(e) /\ UpdateDefinition(e)
    \/ \E e \in Elements, b \in BOOLEAN :
          Step(MaxSteps) /\ OnLive(e) /\ ComputeValues(e, b)

Spec == Init /\ [][Next]_vars

\* Longest run of calls explored when only the pseudo-class related calls are made.
MaxPseudoSteps == 4

\* the calls around pseudo-classes only: SetPseudoClass, UpdateDefinition, ComputeValues
NextPseudo ==
    \/ \E e \in Elements, pc \in PseudoClasses, activate \in BOOLEAN :
          Step(MaxPseudoSteps) /\ OnLive(e) /\ SetPseudoClass(e, pc, activate)
    \/ \E e \in Elements :
          Step(MaxPseudoSteps) /\ OnLive(e) /\ UpdateDefinition(e)
    \/ \E e \in Elements :
          Step(MaxPseudoSteps) /\ OnLive(e) /\ ComputeValues(e, FALSE)

SpecPseudo == Init /\ [][NextPseudo]_vars

\* Longest run of calls explored when only the calls that change a lookup are made.
MaxLookupSteps == 3

\* the calls that change what GetProperty answers: local overrides, flags,
\* classes, and the reload of the Definition
NextLookup ==
    \/ \E e \in Elements, d \in PropertyStrings :
          Step(MaxLookupSteps) /\ OnLive(e) /\ SetProperty(e, d[1], d[2])
    \/ \E e \in Elements, n \in RemoveNames :
          Step(MaxLookupSteps) /\ OnLive(e) /\ RemoveProperty(e, n)
    \/ \E e \in Elements, pc \in PseudoClasses, activate \in BOOLEAN :
          Step(MaxLookupSteps) /\ OnLive(e) /\ SetPseudoClass(e, pc, activate)
    \/ \E e \in Elements, c \in ClassNames, activate \in BOOLEAN :
          Step(MaxLookupSteps) /\ OnLive(e) /\ SetClass(e, c, activate)
    \/ \E e \in Elements :
          Step(MaxLookupSteps) /\ OnLive(e) /\ UpdateDefinition(e)

SpecLookup == Init /\ [][NextLookup]_vars

(***************************************************************************)
(* Vocabulary of the properties.                                           *)
(***************************************************************************)
\* e has a local override for name
HasOverride(e, name) ==
    local_properties[e].allocated /\ local_properties[e].map[name] # NoProperty

\* the attached Definition's winning entry for name under e's active flags, if any
DefinitionEntry(e, name) ==
    IF definition[e] = NULL THEN NoProperty
    ELSE DefinitionGetProperty(Definitions[definition[e]], name, pseudo_classes[e])

\* e's own value for name: its local override, else its Definition's winning entry
OwnValue(e, name) ==
    IF HasOverride(e, name) THEN local_properties[e].map[name] ELSE DefinitionEntry(e, name)

\* the positions, in the ancestor list of e, of the ancestors with an own value
Suppliers(e, name) ==
    {i \in DOMAIN Ancestors(e) : OwnValue(Ancestors(e)[i], name) # NoProperty}

\* the positions of the ancestors with a local override
Overriders(e, name) ==
    {i \in DOMAIN Ancestors(e) : HasOverride(Ancestors(e)[i], name)}

\* the least position of a non-empty set of positions
Nearest(positions) == CHOOSE i \in positions : \A j \in positions : i <= j

\* the descendants of e, at any depth
Descendants(e) == {d \in Elements : Contains(Ancestors(d), e)}

\* the number of occurrences of x in list
Count(list, x) == Cardinality({i \in DOMAIN list : list[i] = x})

\* the last call was `op`
Called(op) == last.op = op

(***************************************************************************)
(* C1.  GetProperty precedence.                                            *)
(***************************************************************************)
\* C1: for every registered name and every element, GetProperty(name) is the
\* element's local override if it has one; else the winning entry of its
\* Definition under its active flags if there is one; else, for an inherited
\* name, the value found on the nearest ancestor that has one; else the default
\* value of the registry.
C1_GetPropertyPrecedence ==
    \A e \in Elements, name \in RegisteredProperties :
        GetProperty(e, name) =
            IF HasOverride(e, name) THEN local_properties[e].map[name]
            ELSE IF DefinitionEntry(e, name) # NoProperty THEN DefinitionEntry(e, name)
            ELSE IF name \in RegisteredInheritedProperties /\ Suppliers(e, name) # {}
            THEN OwnValue(Ancestors(e)[Nearest(Suppliers(e, name))], name)
            ELSE DefaultValue(name)

\* C1 witness: an element with three conflicting sources for one name (a local
\* override, a Definition entry and an ancestor's value), the override differing
\* from the other two
C1_Witness ==
    \E e \in Elements, name \in RegisteredInheritedProperties :
        /\ HasOverride(e, name)
        /\ DefinitionEntry(e, name) \notin {NoProperty, local_properties[e].map[name]}
        /\ Suppliers(e, name) # {}
        /\ GetProperty(e, name) = local_properties[e].map[name]

C3_OneRemovalKeepsDuplicate ==
    ( /\ Called("SetPseudoClass")
      /\ ~last.activate
      /\ Count(last.pre.pseudo_classes, last.arg) = 2 )
    => IsPseudoClassSet(last.element, last.arg)

\* C3 amended: one SetPseudoClass(f, false) after two activations leaves f
\* inactive, both occurrences being erased; a SetPseudoClass(f, false) made while
\* f is not in the list changes nothing and calls nobody
C3_OneRemovalClearsDuplicates ==
    (Called("SetPseudoClass") /\ ~last.activate) =>
        /\ Count(last.pre.pseudo_classes, last.arg) = 2 =>
              /\ ~IsPseudoClassSet(last.element, last.arg)
              /\ Len(pseudo_classes[last.element]) = Len(last.pre.pseudo_classes) - 2
              /\ last.ok
        /\ Count(last.pre.pseudo_classes, last.arg) = 0 =>
              /\ pseudo_classes[last.element] = last.pre.pseudo_classes
              /\ dirty_properties[last.element] = last.pre.dirty_properties
              /\ definition_dirty = last.pre.definition_dirty
              /\ ~last.ok
              /\ last.calls = <<>>

\* C3 witness: f was in the list twice, SetPseudoClass(f, false) was called once,
\* and f is inactive
C3_Witness ==
    /\ Called("SetPseudoClass")
    /\ ~last.activate
    /\ Count(last.pre.pseudo_classes, last.arg) = 2
    /\ ~IsPseudoClassSet(last.element, last.arg)

(***************************************************************************)
(* C4.  The pseudo-class list after SetPseudoClass.                        *)
(***************************************************************************)
\* C4: after SetPseudoClass(f, false) the list holds no f and every other
\* pseudo-class as before, in the same order; after SetPseudoClass(f, true) it is
\* the list as before with one f appended
C4_RemoveAllAppendOne ==
    Called("SetPseudoClass") =>
        IF last.activate
        THEN /\ Len(pseudo_classes[last.element]) = Len(last.pre.pseudo_classes) + 1
             /\ SubSeq(pseudo_classes[last.element], 1, Len(last.pre.pseudo_classes))
                    = last.pre.pseudo_classes
             /\ pseudo_classes[last.element][Len(last.pre.pseudo_classes) + 1] = last.arg
        ELSE /\ ~IsPseudoClassSet(last.element, last.arg)
             /\ pseudo_classes[last.element]
                    = SelectSeq(last.pre.pseudo_classes, LAMBDA pc : pc # last.arg)

\* C4 witness: f is removed from a list that held it twice around another
\* pseudo-class, which is what is left
C4_Witness ==
    /\ Called("SetPseudoClass")
    /\ ~last.activate
    /\ Len(last.pre.pseudo_classes) = 3
    /\ Count(last.pre.pseudo_classes, last.arg) = 2
    /\ last.pre.pseudo_classes[2] # last.arg
    /\ pseudo_classes[last.element] = <<last.pre.pseudo_classes[2]>>

(***************************************************************************)
(* C5.  What ComputeValues returns and leaves.                             *)
(***************************************************************************)
\* name is in the dirty list d
DirtyContains(d, name) == d.all_dirty \/ name \in d.dirty_list

\* the last call was a ComputeValues that changed the computed font size
FontSizeChanged == values[last.element].font_size # last.pre.values.font_size

\* the last call was a ComputeValues that changed the computed line height
LineHeightChanged ==
    values[last.element].line_height.value # last.pre.values.line_height.value

\* C5 as stated: after ComputeValues the element has no dirty property, and the
\* returned list is exactly the list of names dirtied on the element since its
\* previous ComputeValues (the dirty list the call found)
C5_ReturnedExactlyDirtied ==
    Called("ComputeValues") =>
        /\ ~AnyPropertiesDirty(last.element)
        /\ last.returned = last.pre.dirty_properties

\* C5 amended: after ComputeValues the element has no dirty property; the
\* returned list holds every name dirtied since the previous ComputeValues, and
\* besides what the call itself adds: every name when the computed font size
\* changed, else vertical-align when the computed line height changed; it is
\* exactly the list found when neither changed
C5_ReturnedCoversDirtied ==
    Called("ComputeValues") =>
        /\ ~AnyPropertiesDirty(last.element)
        /\ \A n \in RegisteredProperties :
               DirtyContains(last.pre.dirty_properties, n) => DirtyContains(last.returned, n)
        /\ (~FontSizeChanged /\ ~LineHeightChanged) =>
               last.returned = last.pre.dirty_properties
        /\ FontSizeChanged => last.returned.all_dirty
        /\ (~FontSizeChanged /\ LineHeightChanged) =>
               \A n \in RegisteredProperties :
                   DirtyContains(last.returned, n) <=>
                       (DirtyContains(last.pre.dirty_properties, n) \/ n = VERTICAL_ALIGN)

\* C5 witness: ComputeValues found only some names dirty, changed the font size,
\* and returned every name as dirty
C5_Witness ==
    /\ Called("ComputeValues")
    /\ last.ok
    /\ ~last.pre.dirty_properties.all_dirty
    /\ FontSizeChanged
    /\ last.returned.all_dirty
    /\ ~AnyPropertiesDirty(last.element)

(***************************************************************************)
(* C6.  AnyPropertiesDirty after a mutation.                               *)
(***************************************************************************)
\* the last call changed the set of classes of its element
ClassSetChanged ==
    /\ Called("SetClass") \/ Called("SetClassNames")
    /\ Range(classes[last.element]) # Range(last.pre.classes)

\* the last call changed a local property of its element
LocalPropertyChanged ==
    /\ Called("SetProperty") \/ Called("SetPropertyValue") \/ Called("RemoveProperty")
    /\ last.ok

\* the last call changed the pseudo-class list of its element
PseudoClassListChanged == Called("SetPseudoClass") /\ last.ok

\* the names whose transition the last call started
StartedTransitions ==
    {last.calls[i].name : i \in {j \in DOMAIN last.calls :
                                    last.calls[j].call = "StartTransition" /\ last.calls[j].flag}}

\* C6 as stated: after any mutation AnyPropertiesDirty is true on the element
C6_MutationDirties ==
    (LocalPropertyChanged \/ PseudoClassListChanged \/ ClassSetChanged)
    => AnyPropertiesDirty(last.element)

\* C6 amended: a successful SetProperty and a RemoveProperty of an existing
\* override make their name dirty; SetClass and SetClassNames leave the dirty
\* list as it was, and set definition_dirty when they change the class set; a
\* SetPseudoClass that changes the list adds the names the attached Definition
\* defines under rules involving that pseudo-class, less those whose transition
\* started, and nothing when no Definition is attached
C6_MutationEffects ==
    /\ LocalPropertyChanged =>
           /\ DirtyContains(dirty_properties[last.element], last.arg)
           /\ AnyPropertiesDirty(last.element)
    /\ (Called("SetClass") \/ Called("SetClassNames")) =>
           /\ dirty_properties[last.element] = last.pre.dirty_properties
           /\ ClassSetChanged => definition_dirty[last.element]
    /\ PseudoClassListChanged =>
           \A n \in RegisteredProperties :
               DirtyContains(dirty_properties[last.element], n) <=>
                   \/ DirtyContains(last.pre.dirty_properties, n)
                   \/ /\ definition[last.element] # NULL
                      /\ n \in GetDefinedPropertiesFor(Definitions[definition[last.element]],
                                                       pseudo_classes[last.element], last.arg)
                      /\ n \notin StartedTransitions

\* C6 witness: a SetClass changed the class set of an element whose dirty list
\* was empty, and the list is still empty
C6_Witness ==
    /\ ClassSetChanged
    /\ DirtyEmpty(last.pre.dirty_properties)
    /\ ~AnyPropertiesDirty(last.element)
    /\ definition_dirty[last.element]

(***************************************************************************)
(* C7.  Two applicable rules of different specificity.                     *)
(***************************************************************************)
\* the pseudo-class entries the Definition of e holds for name that are
\* applicable under e's active pseudo-classes
ApplicableEntries(e, name) ==
    IF definition[e] = NULL \/ name \notin DOMAIN Definitions[definition[e]].pseudo_class_properties
    THEN {}
    ELSE {entry \in Range(Definitions[definition[e]].pseudo_class_properties[name]) :
              IsPseudoClassRuleApplicable(entry.first, pseudo_classes[e])}

\* the most specific of a set of entries
MostSpecific(entries) ==
    CHOOSE entry \in entries : \A other \in entries : other.specificity <= entry.specificity

\* e has no local override for name and two applicable rules for it, of different
\* specificity and value
TwoRulesApply(e, name) ==
    /\ ~HasOverride(e, name)
    /\ \E r1, r2 \in ApplicableEntries(e, name) :
           r1.specificity # r2.specificity /\ r1.second # r2.second

\* C7: when two rules of different specificity for one name are both applicable
\* for an element, GetProperty returns the value of the more specific rule, and
\* so is the value ComputeValues has left in the computed values
C7_HigherSpecificityWins ==
    \A e \in Elements :
        TwoRulesApply(e, COLOR) =>
            /\ GetProperty(e, COLOR) = MostSpecific(ApplicableEntries(e, COLOR)).second
            /\ (Called("ComputeValues") /\ last.ok /\ last.element = e) =>
                   values[e].color = MostSpecific(ApplicableEntries(e, COLOR)).second.value

(***************************************************************************)
(* C8.  A local override in the computed values.                           *)
(***************************************************************************)
\* the font size of the parent's computed values, as ComputeValues is given it
ParentValuesFontSize(e) ==
    IF GetParentNode(e) = NULL THEN DefaultComputedValues.font_size
    ELSE values[GetParentNode(e)].font_size

LastVolatility ==
    GetPseudoClassVolatility(Definitions[definition[last.element]], last.arg)

\* C9: when SetPseudoClass changes the list for a pseudo-class the attached
\* Definition classifies STRUCTURE_VOLATILE, every descendant has definition_dirty
\* set afterwards; for a STABLE one, no descendant's definition_dirty changes
C9_VolatilityMarksDescendants ==
    (PseudoClassListChanged /\ definition[last.element] # NULL) =>
        /\ LastVolatility = STRUCTURE_VOLATILE =>
               \A d \in Descendants(last.element) : definition_dirty[d]
        /\ LastVolatility = STABLE =>
               \A d \in Descendants(last.element) :
                   definition_dirty[d] = last.pre.definition_dirty[d]

\* C9 witness: a structure-volatile toggle set definition_dirty on a grandchild
\* where it was clear
C9_Witness ==
    /\ PseudoClassListChanged
    /\ definition[last.element] # NULL
    /\ LastVolatility = STRUCTURE_VOLATILE
    /\ \E d \in Descendants(last.element) :
           /\ GetParentNode(d) # last.element
           /\ ~last.pre.definition_dirty[d]
           /\ definition_dirty[d]

(***************************************************************************)
(* C10.  definition_dirty after SetClass and SetClassNames.                *)
(***************************************************************************)
\* C10: a SetClass or SetClassNames that changes the class set sets
\* definition_dirty on the element and on every descendant; a SetClass that
\* activates a class already present, or deactivates an absent one, changes
\* neither the class list nor any definition_dirty
C10_ClassChangeMarksSubtree ==
    /\ ClassSetChanged =>
           /\ definition_dirty[last.element]
           /\ \A d \in Descendants(last.element) : definition_dirty[d]
    /\ (Called("SetClass") /\ (last.activate <=> Contains(last.pre.classes, last.arg))) =>
           /\ classes[last.element] = last.pre.classes
           /\ definition_dirty = last.pre.definition_dirty

\* C10 witness: a class change set definition_dirty on the element and on a
\* grandchild, both clear before
C10_Witness ==
    /\ ClassSetChanged
    /\ ~last.pre.definition_dirty[last.element]
    /\ definition_dirty[last.element]
    /\ \E d \in Descendants(last.element) :
           /\ GetParentNode(d) # last.element
           /\ ~last.pre.definition_dirty[d]
           /\ definition_dirty[d]

(***************************************************************************)
(* C11.  References to Definitions.                                        *)
(***************************************************************************)
\* Longest run of calls explored when elements are also destroyed.
MaxLifetimeSteps == 3

\* the calls that acquire and release references to Definitions: class changes,
\* UpdateDefinition, and the destruction of elements
NextLifetime ==
    \/ \E e \in Elements, c \in ClassNames, activate \in BOOLEAN :
          Step(MaxLifetimeSteps) /\ OnLive(e) /\ SetClass(e, c, activate)
    \/ \E e \in Elements, s \in ClassNameStrings :
          Step(MaxLifetimeSteps) /\ OnLive(e) /\ SetClassNames(e, s)
    \/ \E e \in Elements :
          Step(MaxLifetimeSteps) /\ OnLive(e) /\ UpdateDefinition(e)
    \/ \E e \in Elements :
          Step(MaxLifetimeSteps) /\ ElementStyleDestructor(e)

SpecLifetime == Init /\ [][NextLifetime]_vars

\* the existing elements that hold Definition d
Holders(d) == {e \in alive : definition[e] = d}

\* C11: in every reachable state, the references a Definition has been asked for
\* and not yet released are as many as the existing elements that hold it
C11_ReferencesMatchHolders ==
    \A d \in DefinitionIds : reference_count[d] = Cardinality(Holders(d))

\* C11 witness: an element that held a Definition was destroyed while another
\* element still holds the same Definition, once
C11_Witness ==
    /\ Called("~ElementStyle")
    /\ last.pre.definition # NULL
    /\ Cardinality(Holders(last.pre.definition)) = 1
    /\ reference_count[last.pre.definition] = 1

(***************************************************************************)
(* C12.  UpdateDefinition when the resolved Definition is another one.     *)
(***************************************************************************)
\* Longest run of calls explored when only classes are replaced, Definitions
\* resolved and values computed.
MaxResolveSteps == 5

\* the calls from a change of classes to the computed values: SetClassNames,
\* UpdateDefinition, ComputeValues
NextResolve ==
    \/ \E e \in Elements, s \in ClassNameStrings :
          Step(MaxResolveSteps) /\ OnLive(e) /\ SetClassNames(e, s)
    \/ \E e \in Elements :
          Step(MaxResolveSteps) /\ OnLive(e) /\ UpdateDefinition(e)
    \/ \E e \in Elements :
          Step(MaxResolveSteps) /\ OnLive(e) /\ ComputeValues(e, FALSE)

SpecResolve == Init /\ [][NextResolve]_vars

\* the last call was an UpdateDefinition made with definition_dirty set
Resolved == Called("UpdateDefinition") /\ last.pre.definition_dirty[last.element]

\* the Definition the style sheet resolves for the element of the last call
ResolvedDefinition == GetElementDefinition(classes[last.element])

\* the last call made the call c to a collaborator
Made(c) == \E i \in DOMAIN last.calls : last.calls[i] = c

\* C12: when UpdateDefinition runs with definition_dirty set and the resolved
\* Definition is not the held one, afterwards the element holds the resolved
\* Definition, every name either Definition defines under the current
\* pseudo-classes is dirty unless a transition was started for it, and
\* DirtyDecorators(true) was called
C12_SwitchAdoptsAndDirties ==
    (Resolved /\ ResolvedDefinition # last.pre.definition) =>
        /\ definition[last.element] = ResolvedDefinition
        /\ \A n \in DefinedProperties(last.pre.definition, pseudo_classes[last.element])
                    \cup DefinedProperties(ResolvedDefinition, pseudo_classes[last.element]) :
               n \notin StartedTransitions => DirtyContains(dirty_properties[last.element], n)
        /\ Made(CallDirtyDecorators(last.element, TRUE))

\* C12 witness: an element with an empty dirty list went from one Definition to
\* another; a transition was started for one name, which stayed clean, and the
\* other defined names became dirty
C12_Witness ==
    /\ Resolved
    /\ last.pre.definition \notin {NULL, ResolvedDefinition}
    /\ definition[last.element] = ResolvedDefinition
    /\ DirtyEmpty(last.pre.dirty_properties)
    /\ StartedTransitions # {}
    /\ \E n \in StartedTransitions : ~DirtyContains(dirty_properties[last.element], n)
    /\ AnyPropertiesDirty(last.element)
    /\ Made(CallDirtyDecorators(last.element, TRUE))

(***************************************************************************)
(* C13.  UpdateDefinition when the resolved Definition is the held one.    *)
(***************************************************************************)
\* C13 as stated: when UpdateDefinition runs with definition_dirty set and the
\* resolved Definition is the held one, both being empty included, the dirty
\* list and the held Definition are unchanged, definition_dirty is cleared and
\* DirtyDecorators(true) is not called
C13_SameDefinitionNoRebuild ==
    (Resolved /\ ResolvedDefinition = last.pre.definition) =>
        /\ dirty_properties[last.element] = last.pre.dirty_properties
        /\ definition[last.element] = last.pre.definition
        /\ ~definition_dirty[last.element]
        /\ ~Made(CallDirtyDecorators(last.element, TRUE))

\* C13 amended: when the resolved Definition is the held one and is not empty,
\* the call clears definition_dirty, asks the style sheet, drops the reference it
\* got and does nothing else; when the element holds none and none is resolved,
\* the call clears definition_dirty, leaves the dirty list and the (empty)
\* Definition as they were, and calls DirtyDecorators(true)
C13_SameDefinitionEffects ==
    (Resolved /\ ResolvedDefinition = last.pre.definition) =>
        /\ dirty_properties[last.element] = last.pre.dirty_properties
        /\ definition[last.element] = last.pre.definition
        /\ ~definition_dirty[last.element]
        /\ \A d \in DefinitionIds : reference_count[d] = Cardinality(Holders(d))
        /\ last.pre.definition # NULL => last.calls = <<CallGetElementDefinition(last.element)>>
        /\ last.pre.definition = NULL =>
               last.calls = <<CallGetElementDefinition(last.element),
                              CallDirtyDecorators(last.element, TRUE)>>

\* C13 witness: an element holding a Definition resolved the same one again
C13_Witness ==
    /\ Resolved
    /\ last.pre.definition # NULL
    /\ ResolvedDefinition = last.pre.definition
    /\ definition[last.element] = last.pre.definition
    /\ reference_count[last.pre.definition] = Cardinality(Holders(last.pre.definition))
    /\ last.calls = <<CallGetElementDefinition(last.element)>>

(***************************************************************************)
(* C14.  UpdateDefinition when definition_dirty is clear.                  *)
(***************************************************************************)
\* C14: after every UpdateDefinition definition_dirty is false on the element;
\* when it was false before the call, the call changed nothing: the held
\* Definition, the references, the dirty list and the definition_dirty flags are
\* as before, and no collaborator (style sheet, decoration) was called
C14_CleanIsNoOp ==
    Called("UpdateDefinition") =>
        /\ ~definition_dirty[last.element]
        /\ ~last.pre.definition_dirty[last.element] =>
               /\ definition[last.element] = last.pre.definition
               /\ dirty_properties[last.element] = last.pre.dirty_properties
               /\ definition_dirty = last.pre.definition_dirty
               /\ \A d \in DefinitionIds : reference_count[d] = Cardinality(Holders(d))
               /\ last.calls = <<>>

\* C14 witness: UpdateDefinition was called on an element that holds a
\* Definition and whose definition_dirty was clear
C14_Witness ==
    /\ Called("UpdateDefinition")
    /\ ~last.pre.definition_dirty[last.element]
    /\ last.pre.definition # NULL
    /\ definition[last.element] = last.pre.definition
    /\ last.calls = <<>>

(***************************************************************************)
(* C15.  SetProperty(name, text) when the text does not parse.             *)
(***************************************************************************)
\* C15: when SetProperty(name, text) fails to parse it returns false and leaves
\* the element as it was: the dirty list and the local properties are unchanged,
\* and GetLocalProperties() is still NULL if it was NULL before
C15_ParseFailureChangesNothing ==
    (Called("SetProperty") /\ ~last.ok) =>
        /\ dirty_properties[last.element] = last.pre.dirty_properties
        /\ local_properties[last.element].map = last.pre.local_properties.map
        /\ ~last.pre.local_properties.allocated => ~GetLocalProperties(last.element)

(***************************************************************************)
(* C16.  What a change of a local property makes dirty.                    *)
(***************************************************************************)
\* the dirty list of the last call's element is the one it had, with `names` added
DirtyGrewBy(names) ==
    \A n \in RegisteredProperties :
        DirtyContains(dirty_properties[last.element], n) <=>
            (DirtyContains(last.pre.dirty_properties, n) \/ n \in names)

\* the local properties of the last call's element are as before, but for name
OthersUntouched(name) ==
    \A n \in RegisteredProperties \ {name} :
        local_properties[last.element].map[n] = last.pre.local_properties.map[n]

\* the values SetProperty can have stored for name
Storable(name) ==
    {ParsePropertyDeclaration(d[1], d[2]) : d \in {x \in PropertyStrings : x[1] = name}}
    \cup {d[2] : d \in {x \in PropertyValues : x[1] = name}}

\* C16: a successful SetProperty(name, ...) stores the override for name and adds
\* name, and no other name, to the dirty list; RemoveProperty(name) of an existing
\* override deletes it and adds exactly name; RemoveProperty(name) without an
\* override for name, and SetProperty(name, Property) with an unregistered name
\* (which returns false), change neither the local properties nor the dirty list
C16_OverrideDirtiesItsName ==
    /\ ((Called("SetProperty") \/ Called("SetPropertyValue")) /\ last.ok) =>
           /\ HasOverride(last.element, last.arg)
           /\ local_properties[last.element].map[last.arg] \in Storable(last.arg)
           /\ OthersUntouched(last.arg)
           /\ DirtyGrewBy({last.arg})
    /\ (Called("RemoveProperty") /\ last.ok) =>
           /\ last.pre.local_properties.allocated
           /\ last.pre.local_properties.map[last.arg] # NoProperty
           /\ ~HasOverride(last.element, last.arg)
           /\ OthersUntouched(last.arg)
           /\ DirtyGrewBy({last.arg})
    /\ ((Called("RemoveProperty") \/ Called("SetPropertyValue")) /\ ~last.ok) =>
           /\ local_properties[last.element] = last.pre.local_properties
           /\ dirty_properties[last.element] = last.pre.dirty_properties

\* C16 witness: an override was removed from an element whose dirty list was
\* empty, and the list now holds that one name
C16_Witness ==
    /\ Called("RemoveProperty")
    /\ last.ok
    /\ DirtyEmpty(last.pre.dirty_properties)
    /\ ~HasOverride(last.element, last.arg)
    /\ dirty_properties[last.element] = DirtyInsert(DirtyPropertyList(FALSE), {last.arg})

(***************************************************************************)
(* C17.  What ComputeValues marks dirty on the children.                   *)
(***************************************************************************)
\* the names the last ComputeValues had to pass on: every inherited name when the
\* list it consumed was all-dirty, else the inherited names in that list
PassedOn ==
    IF last.returned.all_dirty THEN RegisteredInheritedProperties
    ELSE RegisteredInheritedProperties \cap last.returned.dirty_list

\* the dirty list of x is the one it had before the last call, with `names` added
DirtyOfGrewBy(x, names) ==
    \A n \in RegisteredProperties :
        DirtyContains(dirty_properties[x], n) <=>
            (DirtyContains(last.pre.others.dirty_properties[x], n) \/ n \in names)

\* C17: ComputeValues adds to the dirty list of each direct child exactly the
\* names to pass on (every inherited name for an all-dirty list, else the
\* inherited names of the consumed list, possibly none); it leaves the dirty list
\* of every other element and the computed values of every other element alone
C17_ChildrenGetInheritedDirty ==
    Called("ComputeValues") =>
        \A x \in Elements \ {last.element} :
            /\ values[x] = last.pre.others.values[x]
            /\ IF last.ok /\ x \in Children(last.element)
               THEN DirtyOfGrewBy(x, PassedOn)
               ELSE dirty_properties[x] = last.pre.others.dirty_properties[x]

\* C17 witness: ComputeValues consumed a list that was not all-dirty and held an
\* inherited name; the child, whose list was empty, now has exactly the inherited
\* names of the consumed list, and the grandchild's list is as before
C17_Witness ==
    /\ Called("ComputeValues")
    /\ last.ok
    /\ ~last.returned.all_dirty
    /\ PassedOn # {}
    /\ last.returned.dirty_list # PassedOn
    /\ \E x \in Children(last.element) :
           /\ DirtyEmpty(last.pre.others.dirty_properties[x])
           /\ dirty_properties[x] = DirtyInsert(DirtyPropertyList(FALSE), PassedOn)
           /\ \E y \in Children(x) :
                  dirty_properties[y] = last.pre.others.dirty_properties[y]

(***************************************************************************)
(* C18.  Transitions started by a change of Definition or of pseudo-class. *)
(***************************************************************************)
\* Longest run of calls explored on the one element whose transitions are followed.
MaxTransitionSteps == 5

\* the element whose transitions are followed
TransitionElements == {"mid"}

\* the calls that lead to a transition, all on one element: local properties,
\* classes, pseudo-classes, UpdateDefinition, ComputeValues
NextTransition ==
    \/ \E e \in TransitionElements, d \in PropertyStrings :
          Step(MaxTransitionSteps) /\ OnLive(e) /\ SetProperty(e, d[1], d[2])
    \/ \E e \in TransitionElements, s \in ClassNameStrings :
          Step(MaxTransitionSteps) /\ OnLive(e) /\ SetClassNames(e, s)
    \/ \E e \in TransitionElements, pc \in PseudoClasses, activate \in BOOLEAN :
          Step(MaxTransitionSteps) /\ OnLive(e) /\ SetPseudoClass(e, pc, activate)
    \/ \E e \in TransitionElements :
          Step(MaxTransitionSteps) /\ OnLive(e) /\ UpdateDefinition(e)
    \/ \E e \in TransitionElements :
          Step(MaxTransitionSteps) /\ OnLive(e) /\ ComputeValues(e, FALSE)

SpecTransition == Init /\ [][NextTransition]_vars

\* the last call changed the Definition or the pseudo-class list of its element
DefinitionOrFlagChanged ==
    \/ Resolved /\ last.ok
    \/ PseudoClassListChanged

\* the names the last call handed to TransitionPropertyChanges
ChangedNames ==
    IF Called("UpdateDefinition")
    THEN DefinedProperties(last.pre.definition, pseudo_classes[last.element])
         \cup DefinedProperties(definition[last.element], pseudo_classes[last.element])
    ELSE IF definition[last.element] = NULL THEN {}
    ELSE GetDefinedPropertiesFor(Definitions[definition[last.element]],
                                 pseudo_classes[last.element], last.arg)

\* the names the transition declaration of the last call's element names
DeclaredTransitions ==
    IF GetLocalProperty(last.element, TRANSITION) = NoProperty THEN {}
    ELSE IF GetLocalProperty(last.element, TRANSITION).value.none THEN {}
    ELSE IF GetLocalProperty(last.element, TRANSITION).value.all THEN RegisteredProperties
    ELSE Range(GetLocalProperty(last.element, TRANSITION).value.transitions)

\* the value of name on the last call's element before the call
ValueBefore(name) ==
    GetPropertyStatic(name, last.element, last.pre.local_properties, last.pre.definition,
                      last.pre.pseudo_classes)

\* the value of name that the Definition and pseudo-classes now held give when
\* the local properties of the element are left out
ValueWithoutLocal(name) ==
    GetPropertyStatic(name, last.element, [allocated |-> FALSE, map |-> EmptyDictionary],
                      definition[last.element], pseudo_classes[last.element])

\* the calls of StartTransition the last call made for name
StartCalls(name) ==
    {i \in DOMAIN last.calls :
        last.calls[i].call = "StartTransition" /\ last.calls[i].name = name}

\* the last call made exactly one call of StartTransition for name, from `from` to `to`
StartedOnce(name, from, to) ==
    /\ Cardinality(StartCalls(name)) = 1
    /\ \A i \in StartCalls(name) : last.calls[i].start = from /\ last.calls[i].target = to

\* name is as dirty as it was before the last call
DirtyAsBefore(name) ==
    DirtyContains(dirty_properties[last.element], name)
        <=> DirtyContains(last.pre.dirty_properties, name)

DefinitionColor(d, pcs) ==
    IF d = NULL THEN NoProperty ELSE DefinitionGetProperty(Definitions[d], COLOR, pcs)

\* the last call was an UpdateDefinition that replaced a Definition giving the
\* color `from` by one giving the color `to` and declaring no transition
Rebound(from, to) ==
    /\ Resolved
    /\ last.pre.definition # definition[last.element]
    /\ DefinitionColor(last.pre.definition, pseudo_classes[last.element]) = Colour(from)
    /\ DefinitionColor(definition[last.element], pseudo_classes[last.element]) = Colour(to)
    /\ GetLocalProperty(last.element, TRANSITION) = NoProperty

\* the last call was a ComputeValues on an element whose color was dirty, that has
\* no local color and whose Definition gives the color `to`
ComputedWith(to) ==
    /\ Called("ComputeValues")
    /\ DirtyContains(last.pre.dirty_properties, COLOR)
    /\ ~HasOverride(last.element, COLOR)
    /\ DefinitionEntry(last.element, COLOR) = Colour(to)

\* C19: the three calls of the scenario, each in every state in which it was the
\* last call.  SetClassNames leaves the definition dirty; the UpdateDefinition
\* that then replaces a Definition with color red by the resolved one with color
\* blue and no transition attaches it and leaves color dirty; the ComputeValues
\* that then runs with color dirty yields the computed color blue and returns a
\* dirty list that contains color
C19_ClassChangeReachesColor ==
    /\ Called("SetClassNames") => definition_dirty[last.element]
    /\ Rebound("red", "blue") =>
           /\ definition[last.element] = ResolvedDefinition
           /\ ~definition_dirty[last.element]
           /\ DirtyContains(dirty_properties[last.element], COLOR)
    /\ ComputedWith("blue") =>
           /\ values[last.element].color = "blue"
           /\ DirtyContains(last.returned, COLOR)

\* C19 witness: the end of the scenario.  The element's color had been computed
\* as red, its classes now resolve to the attached Definition with color blue, and
\* the ComputeValues just made turned the color to blue and returned color
C19_Witness ==
    /\ ComputedWith("blue")
    /\ last.pre.values.color = "red"
    /\ definition[last.element] = GetElementDefinition(classes[last.element])
    /\ ~definition_dirty[last.element]
    /\ ~last.pre.dirty_properties.all_dirty
    /\ values[last.element].color = "blue"
    /\ DirtyContains(last.returned, COLOR)

(***************************************************************************)
(* C20.  Inheriting the line height.                                       *)
(***************************************************************************)
\* the last call was a ComputeValues that ran on an element with a parent and
\* with no line-height of its own
InheritedLineHeight ==
    /\ Called("ComputeValues")
    /\ last.ok
    /\ GetParentNode(last.element) # NULL
    /\ GetLocalProperty(last.element, LINE_HEIGHT) = NoProperty

\* the line height in the computed values of the parent of the last call's element
ParentRecord == values[GetParentNode(last.element)].line_height

\* C20: after ComputeValues on an element with a parent and no line-height of its
\* own, if the parent's line height is of type Number with multiplier m the
\* element's line height is m times the element's own computed font size, of type
\* Number with multiplier m; if the parent's line height is a length the
\* element's line height is the parent's record
C20_LineHeightInherited ==
    InheritedLineHeight =>
        IF ParentRecord.inherit_type = "Number"
        THEN /\ values[last.element].line_height.value * 100
                    = ParentRecord.inherit_value * values[last.element].font_size
             /\ values[last.element].line_height.inherit_type = "Number"
             /\ values[last.element].line_height.inherit_value = ParentRecord.inherit_value
        ELSE values[last.element].line_height = ParentRecord

\* C20 witness: the parent's line height is a multiplier, the element's font size
\* is its own and not the parent's, and the element's line height is the
\* multiplier times its own font size, which is not the parent's line height
C20_Witness ==
    /\ InheritedLineHeight
    /\ ParentRecord.inherit_type = "Number"
    /\ values[last.element].font_size # values[GetParentNode(last.element)].font_size
    /\ values[last.element].line_height.value * 100
           = ParentRecord.inherit_value * values[last.element].font_size
    /\ values[last.element].line_height.value # ParentRecord.value

(***************************************************************************)
(* C21.  What a call on one element does to the other elements.            *)
(***************************************************************************)
\* b's local properties and pseudo-class list are the same before and after the step
KeepsLocalAndPseudo(b) ==
    /\ local_properties'[b] = local_properties[b]
    /\ pseudo_classes'[b] = pseudo_classes[b]

\* the step is a ComputeValues on the parent of b that adds to b's dirty list the
\* inherited names of the list it returned
PushedFromParent(b) ==
    /\ last'.op = "ComputeValues"
    /\ last'.ok
    /\ b \in Children(last'.element)
    /\ dirty_properties'[b] = DirtyInsert(dirty_properties[b], DirtyInherited(last'.returned))

\* the parent's local property for an inherited name is what GetProperty answers
\* on a child that has no value of its own for it
ReadsParentOverride ==
    \A e \in Elements, n \in RegisteredInheritedProperties :
        (/\ GetParentNode(e) # NULL
         /\ GetLocalProperty(e, n) = NoProperty
         /\ HasOverride(GetParentNode(e), n))
            => GetProperty(e, n) = local_properties[GetParentNode(e)].map[n]

NoDuplicates(s) == \A i, j \in DOMAIN s : s[i] = s[j] => i = j

\* C22: the class list of every element holds no name twice, and after
\* SetClass(c, false) IsClassSet(c) is false
C22_ClassesAreASet ==
    /\ \A e \in Elements : NoDuplicates(classes[e])
    /\ (Called("SetClass") /\ ~last.activate) => ~IsClassSet(last.element, last.arg)

(***************************************************************************)
(* C23.  GetProperty for a name that nothing supplies.                     *)
(***************************************************************************)
\* the names GetProperty is asked for: the registered ones and one that is not
QueryNames == RegisteredProperties \cup {"bogus"}

\* neither e nor any of its ancestors has a local property or a Definition entry
\* for name
AbsentEverywhere(e, name) ==
    /\ GetLocalProperty(e, name) = NoProperty
    /\ \A i \in DOMAIN Ancestors(e) : GetLocalProperty(Ancestors(e)[i], name) = NoProperty

\* C23 as stated: for any name absent from the element and from its ancestors,
\* GetProperty answers with the default value of the name, never with NULL
C23_NeverNotFound ==
    \A e \in Elements, n \in QueryNames :
        AbsentEverywhere(e, n) =>
            /\ GetProperty(e, n) # NoProperty
            /\ GetProperty(e, n) = DefaultValue(n)

\* C23 amended: for a registered name absent from the element and from its
\* ancestors GetProperty answers with the default value of the name, which is not
\* NULL; so it does for a registered name that is not inherited and absent from
\* the element alone; for a name that is not registered and that nothing
\* supplies it answers NULL
C23_DefaultForRegisteredNames ==
    \A e \in Elements, n \in QueryNames :
        /\ (n \in RegisteredProperties /\ AbsentEverywhere(e, n)) =>
               /\ GetProperty(e, n) # NoProperty
               /\ GetProperty(e, n) = DefaultValue(n)
        /\ (/\ n \in RegisteredProperties \ RegisteredInheritedProperties
            /\ GetLocalProperty(e, n) = NoProperty) => GetProperty(e, n) = DefaultValue(n)
        /\ (n \notin RegisteredProperties /\ AbsentEverywhere(e, n)) =>
               GetProperty(e, n) = NoProperty

\* C23 witness: an element gets its color from an ancestor with a Definition,
\* while nothing supplies its line-height, for which GetProperty answers with the
\* default value
C23_Witness ==
    \E e \in Elements :
        /\ GetParentNode(e) # NULL
        /\ definition[GetParentNode(e)] # NULL
        /\ GetLocalProperty(e, COLOR) = NoProperty
        /\ ~AbsentEverywhere(e, COLOR)
        /\ GetProperty(e, COLOR) # DefaultValue(COLOR)
        /\ AbsentEverywhere(e, LINE_HEIGHT)
        /\ GetProperty(e, LINE_HEIGHT) = DefaultValue(LINE_HEIGHT)

(***************************************************************************)
(* C24.  Deactivating a pseudo-class that is not active.                   *)
(***************************************************************************)
\* the last call was SetPseudoClass(f, false) with f not in the list
DeactivatedInactive ==
    /\ Called("SetPseudoClass")
    /\ ~last.activate
    /\ ~Contains(last.pre.pseudo_classes, last.arg)

\* C24: SetPseudoClass(f, false) with f not active changes nothing: the
\* pseudo-class list, the dirty list of every element and the definition_dirty
\* flag of every element are as before, and no call is made to DirtyDecorators,
\* DirtyFont or StartTransition
C24_InactiveDeactivationIsNoOp ==
    DeactivatedInactive =>
        /\ pseudo_classes[last.element] = last.pre.pseudo_classes
        /\ dirty_properties = last.pre.others.dirty_properties
        /\ definition_dirty = last.pre.definition_dirty
        /\ ~last.ok
        /\ last.calls = <<>>

\* C24 witness: focus, which makes the attached Definition structure-volatile, was
\* deactivated on an element where only hover is active and whose child has a
\* resolved Definition; no call was made and the child's flag is still clear
C24_Witness ==
    /\ DeactivatedInactive
    /\ last.arg = "focus"
    /\ definition[last.element] # NULL
    /\ GetPseudoClassVolatility(Definitions[definition[last.element]], last.arg)
           = STRUCTURE_VOLATILE
    /\ pseudo_classes[last.element] = <<"hover">>
    /\ \E c \in Children(last.element) : ~definition_dirty[c]
    /\ last.calls = <<>>

(***************************************************************************)
(* C25.  A changed font size makes every property dirty.                   *)
(***************************************************************************)
\* C25: when a ComputeValues that ran resolved a font size other than the one
\* held before, the list it returns is all-dirty and the dirty list of every
\* direct child has grown by every inherited name; when the font size is as
\* before, the returned list is all-dirty only if the list found was
C25_FontSizeChangeDirtiesAll ==
    (Called("ComputeValues") /\ last.ok) =>
        IF FontSizeChanged
        THEN /\ last.returned.all_dirty
             /\ \A c \in Children(last.element) :
                    DirtyOfGrewBy(c, RegisteredInheritedProperties)
        ELSE last.returned.all_dirty <=> last.pre.dirty_properties.all_dirty

\* C25 witness: the list found held a single name; the font size changed, the
\* returned list is all-dirty and the child, whose list was empty, has every
\* inherited name dirty
C25_Witness ==
    /\ Called("ComputeValues")
    /\ last.ok
    /\ ~last.pre.dirty_properties.all_dirty
    /\ Cardinality(last.pre.dirty_properties.dirty_list) = 1
    /\ FontSizeChanged
    /\ last.returned.all_dirty
    /\ \E c \in Children(last.element) :
           /\ DirtyEmpty(last.pre.others.dirty_properties[c])
           /\ dirty_properties[c] = DirtyInsert(DirtyPropertyList(FALSE), RegisteredInheritedProperties)

(***************************************************************************)
(* C26.  ComputeValues on an element with nothing dirty.                   *)
(***************************************************************************)
\* the last call was a ComputeValues that found the dirty list empty
ComputedClean == Called("ComputeValues") /\ DirtyEmpty(last.pre.dirty_properties)

MaxPassCalls == 2

\* the elements in the order of a pass, parents first
PassOrder == <<"root", "mid", "leaf">>

\* the number of calls of a pass: two on each element
PassLength == 2 * Len(PassOrder)

\* a run is a pass, MaxPassCalls calls of any kind, and a second pass
InPass ==
    \/ steps < PassLength
    \/ steps >= PassLength + MaxPassCalls /\ steps < 2 * PassLength + MaxPassCalls

\* the position of the next call within the pass under way
PassPosition == IF steps < PassLength THEN steps ELSE steps - PassLength - MaxPassCalls

\* the pass under way is to call UpdateDefinition on e next
PassUpdates(e) == InPass /\ PassPosition % 2 = 0 /\ PassOrder[(PassPosition \div 2) + 1] = e

\* the pass under way is to call ComputeValues on e next
PassComputes(e) == InPass /\ PassPosition % 2 = 1 /\ PassOrder[(PassPosition \div 2) + 1] = e

\* the last call had every transition it asked for refused
NoTransitionAccepted ==
    \A i \in DOMAIN last.calls : last.calls[i].call = "StartTransition" => ~last.calls[i].flag

\* Element::StartTransition refuses every transition of the call being made
Refused == NoTransitionAccepted'

\* one more call of a run of two passes
PassStep == Step(2 * PassLength + MaxPassCalls)

\* the calls of a pass in their order and, between the two passes, any call on
\* any element
NextPass ==
    \/ \E e \in Elements :
          PassUpdates(e) /\ PassStep /\ OnLive(e) /\ UpdateDefinition(e) /\ Refused
    \/ \E e \in Elements :
          PassComputes(e) /\ PassStep /\ OnLive(e) /\ ComputeValues(e, FALSE) /\ Refused
    \/ \E e \in Elements, pc \in PseudoClasses, activate \in BOOLEAN :
          ~InPass /\ PassStep /\ OnLive(e) /\ SetPseudoClass(e, pc, activate) /\ Refused
    \/ \E e \in Elements, c \in ClassNames, activate \in BOOLEAN :
          ~InPass /\ PassStep /\ OnLive(e) /\ SetClass(e, c, activate) /\ Refused
    \/ \E e \in Elements, s \in ClassNameStrings :
          ~InPass /\ PassStep /\ OnLive(e) /\ SetClassNames(e, s) /\ Refused
    \/ \E e \in Elements, d \in PropertyStrings :
          ~InPass /\ PassStep /\ OnLive(e) /\ SetProperty(e, d[1], d[2]) /\ Refused
    \/ \E e \in Elements, n \in RemoveNames :
          ~InPass /\ PassStep /\ OnLive(e) /\ RemoveProperty(e, n) /\ Refused
    \/ \E e \in Elements :
          ~InPass /\ PassStep /\ OnLive(e) /\ UpdateDefinition(e) /\ Refused
    \/ \E e \in Elements :
          ~InPass /\ PassStep /\ OnLive(e) /\ ComputeValues(e, FALSE) /\ Refused

SpecPass == Init /\ [][NextPass]_vars

\* a pass has just been completed
PassDone == steps = PassLength \/ steps = 2 * PassLength + MaxPassCalls

FromScratch(e) == ComputeValuesResult(e, FALSE).values

\* every element holds the Definition the style sheet resolves for its classes
\* and the values computed from scratch from its own state and from the values
\* its parent holds; from the root down these are the values of a pass made with
\* every element all-dirty
AllFromScratch ==
    \A e \in Elements :
        /\ definition[e] = GetElementDefinition(classes[e])
        /\ values[e] = FromScratch(e)

\* C28: at the end of a pass made after any calls, with no transition accepted,
\* the computed values of every element are those of a pass made from scratch
C28_PassEqualsFromScratch == PassDone => AllFromScratch

\* C28 witness: the second pass is complete; before its last call the last element,
\* though not all-dirty, held values that were not those computed from scratch,
\* and now every element holds them
C28_Witness ==
    /\ steps = 2 * PassLength + MaxPassCalls
    /\ Called("ComputeValues")
    /\ last.ok
    /\ ~last.returned.all_dirty
    /\ last.pre.values # values[last.element]
    /\ last.pre.values # DefaultComputedValues
    /\ AllFromScratch

(***************************************************************************)
(* C29.  The value the iteration assigns last and GetLocalProperty.        *)
(***************************************************************************)
RECURSIVE LastFor(_, _, _)
\* the property of the last of the entries with the name `name`, else `found`
LastFor(entries, name, found) ==
    IF entries = <<>> THEN found
    ELSE LastFor(Tail(entries), name,
                 IF Head(entries).name = name THEN Head(entries).property ELSE found)

\* the property the loop of ComputeValues over the element would see last for name
LastAssigned(e, name) ==
    LastFor(ElementStyleIterate(local_properties[e], definition[e], pseudo_classes[e]),
            name, NoProperty)

\* C29: for every element and every registered name, the property the iteration
\* over the element yields last for the name is the one GetLocalProperty returns
C29_IterationAgreesWithLookup ==
    \A e \in Elements, n \in RegisteredProperties :
        LastAssigned(e, n) = GetLocalProperty(e, n)

(***************************************************************************)
(* C30.  ElementDefinition::Iterator as a function of the definition and   *)
(* of the pseudo-class list: definitions built from every selection of a   *)
(* pool of style sheet nodes, walked for every short pseudo-class list.    *)
(***************************************************************************)
\* Longest pseudo-class list handed to begin() and end().
MaxIteratedPseudoClasses == 2

\* the style sheet nodes the iterated definitions are built from
IteratedRules ==
    << Rule(1, <<>>, (COLOR :> Colour("red"))),
       Rule(1, <<>>, (WIDTH :> Em(200))),
       Rule(2, <<"hover">>, (COLOR :> Colour("blue"))),
       Rule(3, <<"focus">>, (COLOR :> Colour("green"))),
       Rule(4, <<"active">>, (COLOR :> Colour("red"))),
       Rule(2, <<"hover">>, (WIDTH :> Px(100))) >>

\* the nodes of IteratedRules at the positions in `chosen`, in order
ChosenRules(chosen) ==
    LET positions == SelectSeq([i \in DOMAIN IteratedRules |-> i], LAMBDA i : i \in chosen)
    IN  [j \in DOMAIN positions |-> IteratedRules[positions[j]]]

\* the pseudo-class lists handed to begin() and end()
IteratedPseudoClassLists ==
    UNION {{s \in [1..n -> {"hover", "focus", "active"}] : NoDuplicates(s)} :
              n \in 0..MaxIteratedPseudoClasses}

\* the walk to make: a definition and the pseudo-class list to walk it with
Walk(def, element_pseudo_classes) ==
    [definition |-> def, pseudo_classes |-> element_pseudo_classes]

\* a definition built from any selection of the nodes and any of the pseudo-class
\* lists; no walk is made yet and the elements are as constructed
InitIterate ==
    /\ \E chosen \in SUBSET DOMAIN IteratedRules, list \in IteratedPseudoClassLists :
           last = [op |-> "construct", element |-> NULL, arg |-> "", activate |-> FALSE,
                   ok |-> FALSE, returned |-> DirtyPropertyList(FALSE), calls |-> <<>>,
                   pre |-> Walk(Initialise(ChosenRules(chosen), {}, {}), list)]
    /\ local_properties = [e \in Elements |-> [allocated |-> FALSE, map |-> EmptyDictionary]]
    /\ pseudo_classes = [e \in Elements |-> <<>>]
    /\ classes = [e \in Elements |-> <<>>]
    /\ definition = [e \in Elements |-> NULL]
    /\ definition_dirty = [e \in Elements |-> TRUE]
    /\ dirty_properties = [e \in Elements |-> DirtyPropertyList(TRUE)]
    /\ values = [e \in Elements |-> DefaultComputedValues]
    /\ reference_count = [d \in DefinitionIds |-> 0]
    /\ steps = 0
    /\ alive = Elements

\* for (auto it = def.begin(pseudo_classes); it != def.end(pseudo_classes); ++it):
\* the record of the walk holds the entries visited and what was walked
IterateDefinition(def, element_pseudo_classes) ==
    /\ last' = [op |-> "Iterate", element |-> NULL, arg |-> "", activate |-> FALSE,
                ok |-> TRUE, returned |-> DirtyPropertyList(FALSE),
                calls |-> DefinitionIterate(def, element_pseudo_classes),
                pre |-> Walk(def, element_pseudo_classes)]
    /\ UNCHANGED <<local_properties, pseudo_classes, classes, definition, definition_dirty,
                   dirty_properties, values, reference_count, steps, alive>>

NextIterate ==
    /\ last.op = "construct"
    /\ IterateDefinition(last.pre.definition, last.pre.pseudo_classes)

SpecIterate == InitIterate /\ [][NextIterate]_vars

\* the base properties as entries, in the order of the table
BaseEntries(def, keys) ==
    [i \in DOMAIN keys |->
        [name |-> keys[i], property |-> def.properties[keys[i]], pseudo_class_list |-> NULL]]

\* the entries of `list` the pseudo-classes satisfy, in stored order, under `name`
SatisfiedEntries(name, list, element_pseudo_classes) ==
    LET satisfied == SelectSeq(list, LAMBDA stored :
                         \A i \in DOMAIN stored.first :
                             \E j \in DOMAIN element_pseudo_classes :
                                 element_pseudo_classes[j] = stored.first[i])
    IN  [i \in DOMAIN satisfied |->
            [name |-> name, property |-> satisfied[i].second,
             pseudo_class_list |-> satisfied[i].first]]

RECURSIVE ConditionedEntries(_, _, _)
\* the satisfied entries of the pseudo-class table, name after name
ConditionedEntries(def, keys, element_pseudo_classes) ==
    IF keys = <<>> THEN <<>>
    ELSE SatisfiedEntries(Head(keys), def.pseudo_class_properties[Head(keys)],
                          element_pseudo_classes)
         \o ConditionedEntries(def, Tail(keys), element_pseudo_classes)

\* the walk that was recorded
Walked == last.op = "Iterate"

\* C30: a walk from begin(pseudo_classes) to end(pseudo_classes) visits every base
\* property once, then every satisfied pseudo-class entry, name after name and in
\* stored order within a name, nothing else, and then reaches end(pseudo_classes)
C30_IterationYieldsSatisfiedEntries ==
    Walked =>
        last.calls =
            BaseEntries(last.pre.definition, PropertiesKeys(last.pre.definition))
            \o ConditionedEntries(last.pre.definition, PseudoKeys(last.pre.definition),
                                  last.pre.pseudo_classes)

\* the number of the entries walked that are under `name`
Yielded(name) == Cardinality({i \in DOMAIN last.calls : last.calls[i].name = name})

\* a walk of a definition without base properties that visited two entries for
\* color, passed over a third that was not satisfied, and visited an entry for width
C30_Witness ==
    /\ Walked
    /\ DOMAIN last.pre.definition.properties = {}
    /\ COLOR \in DOMAIN last.pre.definition.pseudo_class_properties
    /\ Len(last.pre.definition.pseudo_class_properties[COLOR]) = 3
    /\ Yielded(COLOR) = 2
    /\ Yielded(WIDTH) = 1

\* a walk of a definition without pseudo-class entries that visited its two base properties
C30_WitnessNoConditioned ==
    /\ Walked
    /\ DOMAIN last.pre.definition.pseudo_class_properties = {}
    /\ Len(last.calls) = 2

(***************************************************************************)
(* C31.  The life of definition_dirty and of the Definition of an element. *)
(***************************************************************************)
\* Longest run of calls explored when only the calls around the Definition are made.
MaxDefinitionSteps == 4

\* the calls that dirty, reload or could touch the Definition of an element
NextDefinition ==
    \/ \E e \in Elements, pc \in PseudoClasses, activate \in BOOLEAN :
          Step(MaxDefinitionSteps) /\ OnLive(e) /\ SetPseudoClass(e, pc, activate)
    \/ \E e \in Elements, c \in ClassNames, activate \in BOOLEAN :
          Step(MaxDefinitionSteps) /\ OnLive(e) /\ SetClass(e, c, activate)
    \/ \E e \in Elements, s \in ClassNameStrings :
          Step(MaxDefinitionSteps) /\ OnLive(e) /\ SetClassNames(e, s)
    \/ \E e \in Elements :
          Step(MaxDefinitionSteps) /\ OnLive(e) /\ UpdateDefinition(e)

SpecDefinition == Init /\ [][NextDefinition]_vars

\* every element is as constructed: no Definition, definition_dirty set, all dirty
AsConstructed ==
    \A e \in Elements :
        /\ definition[e] = NULL
        /\ definition_dirty[e]
        /\ dirty_properties[e] = DirtyPropertyList(TRUE)

\* the step is a SetClass or SetClassNames call on e or on an ancestor of e
ClassCallAbove(e) ==
    /\ last'.op \in {"SetClass", "SetClassNames"}
    /\ last'.element = e \/ Contains(Ancestors(e), last'.element)

\* the step is a SetPseudoClass call on an ancestor of e for a pseudo-class the
\* ancestor's Definition holds to be structurally volatile
VolatileCallAbove(e) ==
    /\ last'.op = "SetPseudoClass"
    /\ Contains(Ancestors(e), last'.element)
    /\ definition[last'.element] # NULL
    /\ GetPseudoClassVolatility(Definitions[definition[last'.element]], last'.arg)
          = STRUCTURE_VOLATILE

\* the call of the step made the pseudo-class active or inactive on its element
Toggled ==
    Contains(pseudo_classes[last'.element], last'.arg)
        # Contains(pseudo_classes'[last'.element], last'.arg)

\* the call of the step changed the length of the pseudo-class list of its element
Resized == Len(pseudo_classes'[last'.element]) # Len(pseudo_classes[last'.element])

\* the step is UpdateDefinition on e
OwnUpdate(e) == last'.op = "UpdateDefinition" /\ last'.element = e

\* definition_dirty of e is cleared, and the Definition of e changes, in
\* UpdateDefinition on e only
ClearedAndReloadedByOwnUpdate ==
    \A e \in Elements :
        /\ definition_dirty[e] /\ ~definition_dirty'[e] => OwnUpdate(e)
        /\ definition'[e] # definition[e] => OwnUpdate(e)

\* C31 as stated: elements start without Definition, with definition_dirty set and
\* all dirty; definition_dirty is set only by SetClass or SetClassNames on the
\* element or an ancestor, or by a structurally volatile pseudo-class becoming
\* active or inactive on an ancestor; it is cleared, and the Definition changes,
\* only in the element's own UpdateDefinition
C31_DirtyOnlyByToggle ==
    /\ AsConstructed
    /\ [][/\ \A e \in Elements :
                ~definition_dirty[e] /\ definition_dirty'[e]
                    => ClassCallAbove(e) \/ (VolatileCallAbove(e) /\ Toggled)
          /\ ClearedAndReloadedByOwnUpdate]_vars

\* C31, amended: as above, but the SetPseudoClass call on the ancestor need only
\* change the length of the pseudo-class list, which activating a pseudo-class
\* that is active already does too
C31_DefinitionLifetime ==
    /\ AsConstructed
    /\ [][/\ \A e \in Elements :
                ~definition_dirty[e] /\ definition_dirty'[e]
                    => ClassCallAbove(e) \/ (VolatileCallAbove(e) /\ Resized)
          /\ ClearedAndReloadedByOwnUpdate]_vars

\* definition_dirty of the child of the called element was clear and is set
ChildMarked ==
    \E c \in Children(last.element) :
        ~last.pre.definition_dirty[c] /\ definition_dirty[c]

\* C31 witness: activating a structurally volatile pseudo-class on an element
\* where it was active already has set definition_dirty of its child, which held
\* a Definition loaded by its own UpdateDefinition
C31_Witness ==
    /\ Called("SetPseudoClass")
    /\ last.activate
    /\ Contains(last.pre.pseudo_classes, last.arg)
    /\ ChildMarked
    /\ \E c \in Children(last.element) : definition[c] # NULL

(***************************************************************************)
(* C32.  SetPseudoClass(f, true) where f is active already.                *)
(***************************************************************************)
\* the last call was SetPseudoClass(f, true) with f in the list already
Reactivated ==
    /\ Called("SetPseudoClass")
    /\ last.activate
    /\ Contains(last.pre.pseudo_classes, last.arg)

\* the names the last call handed to DirtyProperties, but for the started transitions
ReactivatedNames ==
    GetDefinedPropertiesFor(Definitions[definition[last.element]],
                            pseudo_classes[last.element], last.arg) \ StartedTransitions

\* C32 as stated: SetPseudoClass(f, true) with f active already leaves the set of
\* active pseudo-classes as it was and invalidates nothing: the dirty list and
\* the definition_dirty flag of every element are as before and no call is made
\* to StartTransition, DirtyDecorators or DirtyFont
C32_ReactivationInvalidatesNothing ==
    Reactivated =>
        /\ Range(pseudo_classes[last.element]) = Range(last.pre.pseudo_classes)
        /\ dirty_properties = last.pre.others.dirty_properties
        /\ definition_dirty = last.pre.definition_dirty
        /\ last.calls = <<>>

\* C32, amended: SetPseudoClass(f, true) with f active already leaves the set of
\* active pseudo-classes as it was but appends f once more, and is carried out as
\* a change: DirtyDecorators(false) is called; with a Definition attached the
\* names it defines under f are added to the dirty list, DirtyFont is called
\* exactly for a FONT_VOLATILE f, definition_dirty is set on every descendant for
\* a STRUCTURE_VOLATILE f and on no other element; StartTransition is called
\* only for a name the element overrides locally; the dirty lists of the other
\* elements are as before
C32_ReactivationIsCarriedOut ==
    Reactivated =>
        /\ Range(pseudo_classes[last.element]) = Range(last.pre.pseudo_classes)
        /\ pseudo_classes[last.element] = Append(last.pre.pseudo_classes, last.arg)
        /\ Made(CallDirtyDecorators(last.element, FALSE))
        /\ \A i \in DOMAIN last.calls :
               last.calls[i].call = "StartTransition" => HasOverride(last.element, last.calls[i].name)
        /\ \A x \in Elements \ {last.element} :
               dirty_properties[x] = last.pre.others.dirty_properties[x]
        /\ IF definition[last.element] = NULL
           THEN /\ dirty_properties = last.pre.others.dirty_properties
                /\ definition_dirty = last.pre.definition_dirty
                /\ last.calls = <<CallDirtyDecorators(last.element, FALSE)>>
           ELSE /\ DirtyGrewBy(ReactivatedNames)
                /\ Made(CallDirtyFont(last.element)) <=> LastVolatility = FONT_VOLATILE
                /\ \A x \in Elements :
                       definition_dirty[x] =
                           (\/ last.pre.definition_dirty[x]
                            \/ /\ LastVolatility = STRUCTURE_VOLATILE
                               /\ x \in Descendants(last.element))

\* C32 witness: focus was activated on an element where it was active already
\* and whose dirty list was empty; color, which the Definition defines under
\* focus, is dirty now and DirtyDecorators(false) was called
C32_Witness ==
    /\ Reactivated
    /\ last.arg = "focus"
    /\ DirtyEmpty(last.pre.dirty_properties)
    /\ definition[last.element] # NULL
    /\ dirty_properties[last.element].dirty_list = {COLOR}
    /\ Made(CallDirtyDecorators(last.element, FALSE))

(***************************************************************************)
(* C33.  Transitions and the value the element has.                        *)
(***************************************************************************)
\* C33: when a call changes the Definition or the pseudo-class list of an
\* element, StartTransition is called for a name only if GetProperty gave
\* another value for it before the call than it gives after; for a name the
\* element overrides locally StartTransition is not called, and the name is
\* dirty if the change names it
C33_TransitionOnlyOnChangedValue ==
    DefinitionOrFlagChanged =>
        /\ \A n \in RegisteredProperties :
               StartCalls(n) # {} => ValueBefore(n) # GetProperty(last.element, n)
        /\ \A n \in RegisteredProperties :
               HasOverride(last.element, n) =>
                   /\ StartCalls(n) = {}
                   /\ n \in ChangedNames => DirtyContains(dirty_properties[last.element], n)

\* a change made while the element overrides color locally: StartTransition was
\* called for color and accepted, the value of color is what it was, and color,
\* which the change names, is not dirty
C33_OverriddenNameTransitions ==
    /\ DefinitionOrFlagChanged
    /\ HasOverride(last.element, COLOR)
    /\ COLOR \in StartedTransitions
    /\ COLOR \in ChangedNames
    /\ ValueBefore(COLOR) = GetProperty(last.element, COLOR)
    /\ ~DirtyContains(dirty_properties[last.element], COLOR)

=============================================================================
